---- MODULE Spec2Model ----
(***************************************************************************)
(* Presence and live-state synchronisation engine of agnos-web.            *)
(*                                                                         *)
(* The staff dashboard reconciler (useStaffDashboard) folds the messages   *)
(* of the shared "dashboard" room into the map `patients`.  The repository *)
(* holds two generations of that hook under the same name:                 *)
(*   "timers"  - src/hooks/web-socket.ts:189-412, which evicts submitted   *)
(*               and disconnected entries itself with one-shot timers and  *)
(*               has no patientRemoved branch;                             *)
(*   "removed" - src/hooks/web-socket.ts:705-851 (and src/unnamed/part_004)*)
(*               which arms no timer and deletes on patientRemoved.        *)
(* `variant` fixes which of the two is running.                            *)
(*                                                                         *)
(* Time is the value of Date.now() in milliseconds.  A timestamp of 0      *)
(* stands for a missing (or zero) field: both are falsy to the code's      *)
(* `x || Date.now()` and `a && b` tests.                                   *)
(***************************************************************************)
EXTENDS Integers, Sequences, FiniteSets, TLC

ClientIds == {"p1", "p2"}

REMOVAL_DELAY == 10000

\* granularity of the clock and of the message timestamps that are tried
TickMs == REMOVAL_DELAY \div 2

\* Date.now() when the dashboard is mounted
StartTime == 2 * REMOVAL_DELAY

\* the clock advances at most MaxTicks times
MaxTicks == 3

\* at most MaxMsgs frames reach the dashboard's handlers
MaxMsgs == 2

\* at most MaxWire relayed frames are in flight to the dashboard
MaxWire == 1

\* the clock advances at most LiveTicks times while live-detail sockets are tried
LiveTicks == 1

IDLE_TIMEOUT == 30000

ONLINE_TIMEOUT == 2000

\* delay of the initial "online" after the patient page got its id
SETTLE_DELAY == 1000

\* at most MaxInputs keystroke and focus events reach the patient page
MaxInputs == 3

DASHBOARD_SUMMARY_DEBOUNCE == 600

\* the wait of the later page's onSubmit before router.push
SUBMIT_WAIT == 500

\* number of required fields of the form
RequiredFields == 9

FULL_SNAPSHOT_THRESHOLD == 3

\* at most MaxSockets live-detail sockets are created
MaxSockets == 3

\* at most LiveSockets live-detail sockets while frames are tried
LiveSockets == 1

\* at most MaxForms changes of the form
MaxForms == 2

\* at most MaxErrors times a socket of the page fails or is closed by the server
MaxErrors == 1

\* submissions of the patient page that are followed
MaxSubmits == 1

\* renders of useWebSocket with changed props that are followed
MaxRenders == 2

\* at most ChanInputs keystroke and focus events while the sockets are followed
ChanInputs == 1

\* granularity of the clock of the patient page
PageTickMs == SETTLE_DELAY

\* after an event of the patient page the clock is followed in steps of
\* PageTickMs for FineWindow ms, and from timer to timer afterwards
FineWindow == ONLINE_TIMEOUT + PageTickMs

\* granularity of the clock while a debounced summary is pending
DebounceTickMs == DASHBOARD_SUMMARY_DEBOUNCE \div 2

VARIABLES
    variant,           \* "timers" or "removed": generation of useStaffDashboard
    now,               \* Date.now()
    mounted,           \* the dashboard component is mounted
    patients,          \* useState<Record<string, PatientInfo>>
    removalTimersRef,  \* useRef<Record<string, number>>: clientId -> timer id
    timeouts,          \* pending window.setTimeout entries armed by the hook
    wire,              \* frames a patient page sent, relayed towards the dashboard
    lastFor,           \* history: last frame processed for each clientId
    lastStep,          \* history: the last step taken
    nMsgs,             \* number of frames handled so far, on any socket
    uncaught,          \* an exception has escaped a message handler
    socketsRef,        \* usePatientLiveConnections: patientId -> number of its socket
    liveSockets,       \* the live-detail sockets connectWS has created, in order
    nSockets,          \* number of live-detail sockets created so far
    nUpdates,          \* number of onUpdate invocations
    patientId,         \* PatientPage: useState<string>("")
    currentStatus,     \* PatientPage: useState<ActivePatientStatus>("online")
    activityTimerRef,  \* PatientPage: useRef<number | null>, 0 for null
    idleTimerRef,      \* PatientPage: useRef<number | null>, 0 for null
    pageTimeouts,      \* pending window.setTimeout entries armed by the page
    pageMounted,       \* the patient page is mounted
    emitted,           \* history: the status messages the page sent
    lastInput,         \* history: the last keystroke or focus event
    nInputs,           \* number of keystroke and focus events so far
    patientWS,         \* readyState of the page's own-room socket, "none": no socket
    dashboardWS,       \* readyState of the page's dashboard socket, "none": no socket
    sentOwn,           \* messages transmitted on the own-room socket
    sentDash,          \* messages transmitted on the dashboard socket
    debounceTimer,     \* useDashboardWebSocket: useRef<number | null>, 0 for null
    dashTimeouts,      \* pending window.setTimeout entries armed by sendDebounced
    formValues,        \* the values of the form
    nForms,            \* number of form changes so far
    lastDebounced,     \* history: the message of the last call of sendDebounced
    lastError,         \* history: the last transport error event of a page socket
    nErrors,           \* number of transport error events so far
    isSubmitting,      \* PatientPage (later page): useState(false)
    redirectAt,        \* due time of onSubmit's 500 ms wait before router.push, 0: none
    nSubmits,          \* number of submissions so far
    viewStatus,        \* StaffPatientView: useState<ActivePatientStatus>("online")
    viewForm,          \* StaffPatientView: formData
    viewLastUpdate,    \* StaffPatientView: lastUpdate, 0 for the time of the first render
    viewRedirects,     \* StaffPatientView: due times of the pending redirect timers
    viewPhase,         \* StaffPatientView: "none", "mounted", "crashed" or "left"
    hookDeps,          \* useWebSocket: the props of the last render
    hookSockets,       \* useWebSocket: the sockets connectWS has created, in order
    hookWs,            \* useWebSocket: the socket `ws` of the effect in force, 0: none
    hookMounted,       \* useWebSocket: the component that calls the hook is mounted
    nRenders,          \* useWebSocket: number of renders with changed props so far
    callArgs,          \* the arguments of a call of createWSMessage
    calledAt,          \* Date.now() at that call, 0: not called yet
    wireText,          \* the text the call returned
    decoded            \* what JSON.parse made of the text

\* usePatientLiveConnections and its callback
liveVars == <<socketsRef, liveSockets, nSockets, nUpdates>>

\* the patient page
pageVars == <<patientId, currentStatus, activityTimerRef, idleTimerRef,
              pageTimeouts, pageMounted, emitted, lastInput, nInputs>>

\* the sockets of the patient page, the debounced summary and the form
chanVars == <<patientWS, dashboardWS, sentOwn, sentDash, debounceTimer,
              dashTimeouts, formValues, nForms, lastDebounced, lastError,
              nErrors>>

\* the submission of the patient page
submitVars == <<isSubmitting, redirectAt, nSubmits>>

\* the staff live view of one patient
viewVars == <<viewStatus, viewForm, viewLastUpdate, viewRedirects, viewPhase>>

\* one instance of useWebSocket
hookVars == <<hookDeps, hookSockets, hookWs, hookMounted, nRenders>>

\* one call of createWSMessage and the decoding of its text
codecVars == <<callArgs, calledAt, wireText, decoded>>

\* the parts that are followed on their own
unitVars == <<viewVars, hookVars, codecVars>>

vars == <<variant, now, mounted, patients, removalTimersRef, timeouts,
          wire, lastFor, lastStep, nMsgs, uncaught, liveVars, pageVars, chanVars,
          submitVars, unitVars>>

Variants == {"timers", "removed"}

validStatuses == {"online", "updating", "idle", "disconnected"}

ActiveStatuses == {"online", "updating", "idle"}

Max(a, b) == IF a >= b THEN a ELSE b

Min(a, b) == IF a <= b THEN a ELSE b

\* `x || Date.now()`
OrNow(x, t) == IF x = 0 THEN t ELSE x

EmptyMap == [x \in {} |-> x]

Put(f, k, v) == (k :> v) @@ f

Remove(f, k) == [x \in DOMAIN f \ {k} |-> f[x]]

(***************************************************************************)
(* PatientSummary values.  kind "undefined" is a missing summary field,    *)
(* kind "empty" the literal {}.                                            *)
(***************************************************************************)
UndefinedSummary ==
    [kind |-> "undefined", progress |-> 0, submitted |-> FALSE, submittedAt |-> 0]

EmptySummary ==
    [kind |-> "empty", progress |-> 0, submitted |-> FALSE, submittedAt |-> 0]

Summary(progress, submitted, submittedAt) ==
    [kind |-> "data", progress |-> progress, submitted |-> submitted,
     submittedAt |-> submittedAt]

\* `s || {}`
OrEmpty(s) == IF s.kind = "undefined" THEN EmptySummary ELSE s

\* `summary?.submitted && summary?.submittedAt`
SubmittedWithTime(s) == s.submitted /\ s.submittedAt # 0

\* timestamps carried by the frames that are tried at time t: missing, older
\* than the grace window, inside it, current, and ahead of the local clock
MsgTimestamps(t) == {0, t - REMOVAL_DELAY, t - TickMs, t, t + TickMs}

\* timestamps tried on frames whose timestamp only lands in the entry's ts
ArrivalTimestamps(t) == {0, t}

\* timestamps tried on status frames
StatusTimestamps(t) == {t - REMOVAL_DELAY, t}

\* summary payloads that are tried at time t
SummaryPayloads(t) ==
    { Summary(50, FALSE, 0),
      Summary(100, TRUE, 0),
      Summary(100, TRUE, t - REMOVAL_DELAY),
      Summary(100, TRUE, t - TickMs) }

\* participant snapshots of an initialState payload that are tried at time t
Snapshot(summary, status, lastActivity, disconnectedAt) ==
    [summary |-> summary, status |-> status, lastActivity |-> lastActivity,
     disconnectedAt |-> disconnectedAt]

Snapshots(t) ==
    { Snapshot(UndefinedSummary, "idle", t - TickMs, 0),
      Snapshot(Summary(50, FALSE, 0), "", 0, 0),
      Snapshot(UndefinedSummary, "disconnected", t - TickMs, t - REMOVAL_DELAY),
      Snapshot(UndefinedSummary, "disconnected", t - TickMs, t - TickMs),
      Snapshot(UndefinedSummary, "disconnected", t - TickMs, 0),
      Snapshot(Summary(100, TRUE, t - REMOVAL_DELAY), "online", t - TickMs, 0),
      Snapshot(Summary(100, TRUE, t - TickMs), "online", t - TickMs, 0) }

\* initialState payloads: one snapshot for each clientId of a set
InitialPayloads(t) ==
    UNION { [S -> Snapshots(t)] : S \in SUBSET ClientIds }

(***************************************************************************)
(* The state a handler works on: the React state `p`, the ref `ref` and    *)
(* the browser's pending timeouts `to`.  setPatients updaters queued by a  *)
(* handler are applied in the order they were queued.                      *)
(***************************************************************************)
HookState(p, ref, to) == [p |-> p, ref |-> ref, to |-> to]

\* window.clearTimeout(id)
ClearTimeout(to, id) == {x \in to : x.id # id}

\* id returned by window.setTimeout: one that names no other timer
FreshId(ref, to) ==
    LET used == {x.id : x \in to} \cup {ref[c] : c \in DOMAIN ref}
    IN  CHOOSE i \in 1..(Cardinality(used) + 1) :
            i \notin used /\ \A j \in 1..(i - 1) : j \in used

\* ClearRemovalTimer forgetting the clearTimeout call
ClearRemovalTimer_KeepsTimeout(st, clientId) ==
    IF clientId \in DOMAIN st.ref
    THEN [st EXCEPT !.ref = Remove(st.ref, clientId)]
    ELSE st

\* `if (removalTimersRef.current[id]) { clearTimeout(...); delete ... }`
ClearRemovalTimer(st, clientId) ==
    IF clientId \in DOMAIN st.ref
    THEN [st EXCEPT !.to = ClearTimeout(st.to, st.ref[clientId]),
                    !.ref = Remove(st.ref, clientId)]
    ELSE st

\* scheduleRemoval waiting a flat REMOVAL_DELAY from the arrival time
scheduleRemoval_FlatDelay(st, clientId, eventTimestamp, reason, t) ==
    LET cleared == IF clientId \in DOMAIN st.ref
                   THEN ClearTimeout(st.to, st.ref[clientId])
                   ELSE st.to
        id == FreshId(st.ref, cleared)
    IN  [p |-> st.p,
         ref |-> Put(st.ref, clientId, id),
         to |-> cleared \cup
                {[id |-> id, clientId |-> clientId,
                  due |-> t + REMOVAL_DELAY, reason |-> reason]}]

\* scheduleRemoval arming a timer without clearing the one already recorded
scheduleRemoval_Stack(st, clientId, eventTimestamp, reason, t) ==
    LET elapsed == t - eventTimestamp
        remaining == Max(0, REMOVAL_DELAY - elapsed)
    IN  IF remaining = 0
        THEN [p |-> Remove(st.p, clientId),
              ref |-> Remove(st.ref, clientId),
              to |-> st.to]
        ELSE LET id == FreshId(st.ref, st.to)
             IN  [p |-> st.p,
                  ref |-> Put(st.ref, clientId, id),
                  to |-> st.to \cup
                         {[id |-> id, clientId |-> clientId,
                           due |-> t + remaining, reason |-> reason]}]

scheduleRemoval(st, clientId, eventTimestamp, reason, t) ==
    LET elapsed == t - eventTimestamp
        remaining == Max(0, REMOVAL_DELAY - elapsed)
        cleared == IF clientId \in DOMAIN st.ref
                   THEN ClearTimeout(st.to, st.ref[clientId])
                   ELSE st.to
    IN  IF remaining = 0
        THEN [p |-> Remove(st.p, clientId),
              ref |-> Remove(st.ref, clientId),
              to |-> cleared]
        ELSE LET id == FreshId(st.ref, cleared)
             IN  [p |-> st.p,
                  ref |-> Put(st.ref, clientId, id),
                  to |-> cleared \cup
                         {[id |-> id, clientId |-> clientId,
                           due |-> t + remaining, reason |-> reason]}]

\* entry built for one snapshot of an initialState payload
InitialPatient(s, t) ==
    [summary |-> OrEmpty(s.summary),
     ts |-> OrNow(s.lastActivity, t),
     isLiveConnected |-> "false",
     status |-> IF s.status = "" THEN "online" ELSE s.status,
     lastActivity |-> OrNow(s.lastActivity, t)]

\* the scheduleRemoval calls of the payload's forEach
RECURSIVE ScheduleInitial(_, _, _, _)
ScheduleInitial(st, payload, todo, t) ==
    IF todo = {} THEN st
    ELSE LET c == CHOOSE x \in todo : TRUE
             s == payload[c]
             st1 == IF SubmittedWithTime(s.summary)
                    THEN scheduleRemoval(st, c, s.summary.submittedAt, "submitted", t)
                    ELSE IF s.status = "disconnected" /\ s.disconnectedAt # 0
                    THEN scheduleRemoval(st, c, s.disconnectedAt, "disconnected", t)
                    ELSE st
         IN  ScheduleInitial(st1, payload, todo \ {c}, t)

\* OnInitialState spreading the previous map under the payload's entries
OnInitialState_Merge(st, payload, t) ==
    LET initialPatients == [c \in DOMAIN payload |-> InitialPatient(payload[c], t)]
        st1 == IF variant = "timers"
               THEN ScheduleInitial(st, payload, DOMAIN payload, t)
               ELSE st
    IN  [st1 EXCEPT !.p = initialPatients @@ st1.p]

OnInitialState(st, payload, t) ==
    LET initialPatients == [c \in DOMAIN payload |-> InitialPatient(payload[c], t)]
        st1 == IF variant = "timers"
               THEN ScheduleInitial(st, payload, DOMAIN payload, t)
               ELSE st
    IN  [st1 EXCEPT !.p = initialPatients]

PrevLive(p, c) == IF c \in DOMAIN p THEN p[c].isLiveConnected ELSE "undefined"

PrevStatus(p, c) == IF c \in DOMAIN p THEN p[c].status ELSE "online"

PrevSummary(p, c) == IF c \in DOMAIN p THEN OrEmpty(p[c].summary) ELSE EmptySummary

\* OnSummary writing status "online" whatever the entry held
OnSummary_ResetsStatus(st, c, ts, payload, t) ==
    LET st1 == IF variant = "timers" /\ ~payload.submitted
               THEN ClearRemovalTimer(st, c)
               ELSE st
        st2 == [st1 EXCEPT !.p = Put(st1.p, c,
                   [summary |-> payload,
                    ts |-> OrNow(ts, t),
                    isLiveConnected |-> PrevLive(st1.p, c),
                    status |-> "online",
                    lastActivity |-> t])]
    IN  IF variant = "timers" /\ SubmittedWithTime(payload)
        THEN scheduleRemoval(st2, c, payload.submittedAt, "submitted", t)
        ELSE st2

OnSummary(st, c, ts, payload, t) ==
    LET st1 == IF variant = "timers" /\ ~payload.submitted
               THEN ClearRemovalTimer(st, c)
               ELSE st
        st2 == [st1 EXCEPT !.p = Put(st1.p, c,
                   [summary |-> payload,
                    ts |-> OrNow(ts, t),
                    isLiveConnected |-> PrevLive(st1.p, c),
                    status |-> PrevStatus(st1.p, c),
                    lastActivity |-> t])]
    IN  IF variant = "timers" /\ SubmittedWithTime(payload)
        THEN scheduleRemoval(st2, c, payload.submittedAt, "submitted", t)
        ELSE st2

\* OnStatus without the validStatuses test
OnStatus_NoValidation(st, c, ts, state, t) ==
    IF state # ""
    THEN [st EXCEPT !.p = Put(st.p, c,
             [summary |-> PrevSummary(st.p, c),
              ts |-> OrNow(ts, t),
              isLiveConnected |-> PrevLive(st.p, c),
              status |-> state,
              lastActivity |-> t])]
    ELSE st

\* `msg.state && validStatuses.includes(msg.state)`, else a console.warn
OnStatus(st, c, ts, state, t) ==
    IF state \in validStatuses
    THEN [st EXCEPT !.p = Put(st.p, c,
             [summary |-> PrevSummary(st.p, c),
              ts |-> OrNow(ts, t),
              isLiveConnected |-> PrevLive(st.p, c),
              status |-> state,
              lastActivity |-> t])]
    ELSE st

\* OnPatientConnected keeping the status the entry held
OnPatientConnected_KeepsStatus(st, c, ts, t) ==
    LET st1 == IF variant = "timers" THEN ClearRemovalTimer(st, c) ELSE st
    IN  [st1 EXCEPT !.p = Put(st1.p, c,
             [summary |-> PrevSummary(st1.p, c),
              ts |-> OrNow(ts, t),
              isLiveConnected |-> PrevLive(st1.p, c),
              status |-> PrevStatus(st1.p, c),
              lastActivity |-> t])]

OnPatientConnected(st, c, ts, t) ==
    LET st1 == IF variant = "timers" THEN ClearRemovalTimer(st, c) ELSE st
    IN  [st1 EXCEPT !.p = Put(st1.p, c,
             [summary |-> PrevSummary(st1.p, c),
              ts |-> OrNow(ts, t),
              isLiveConnected |-> PrevLive(st1.p, c),
              status |-> "online",
              lastActivity |-> t])]

\* OnPatientDisconnected advancing lastActivity to the arrival time
OnPatientDisconnected_TouchesActivity(st, c, ts, t) ==
    LET disconnectedAt == OrNow(ts, t)
        st1 == [st EXCEPT !.p = Put(st.p, c,
                   [summary |-> IF c \in DOMAIN st.p THEN st.p[c].summary
                                ELSE UndefinedSummary,
                    ts |-> disconnectedAt,
                    isLiveConnected |-> PrevLive(st.p, c),
                    status |-> "disconnected",
                    lastActivity |-> t])]
    IN  IF variant = "timers"
        THEN scheduleRemoval(st1, c, disconnectedAt, "disconnected", t)
        ELSE st1

OnPatientDisconnected(st, c, ts, t) ==
    LET disconnectedAt == OrNow(ts, t)
        st1 == [st EXCEPT !.p = Put(st.p, c,
                   [summary |-> IF c \in DOMAIN st.p THEN st.p[c].summary
                                ELSE UndefinedSummary,
                    ts |-> disconnectedAt,
                    isLiveConnected |-> PrevLive(st.p, c),
                    status |-> "disconnected",
                    lastActivity |-> IF c \in DOMAIN st.p
                                     THEN OrNow(st.p[c].lastActivity, t)
                                     ELSE t])]
    IN  IF variant = "timers"
        THEN scheduleRemoval(st1, c, disconnectedAt, "disconnected", t)
        ELSE st1

OnPatientRemoved(st, c) ==
    IF variant = "removed"
    THEN [st EXCEPT !.p = Remove(st.p, c)]
    ELSE st

(***************************************************************************)
(* Frames as they arrive: the text of MessageEvent.data.  A frame that     *)
(* JSON.parse accepts is written as the message object it parses to, the   *)
(* other frames as their text.  A missing clientId or state is "".         *)
(***************************************************************************)
Text(s) == [text |-> s]

MalformedFrames == {Text("{not json"), Text("")}

Msg(type, clientId, timestamp, payload, state) ==
    [type |-> type, clientId |-> clientId, timestamp |-> timestamp,
     payload |-> payload, state |-> state]

\* JSON.parse(event.data): the message object, or a SyntaxError
JSONParse(data) ==
    IF data \in MalformedFrames
    THEN [threw |-> TRUE]
    ELSE [threw |-> FALSE, msg |-> data]

\* what a handler leaves behind: the hook state, and whether an exception
\* left the handler
Outcome(st, threw) == [st |-> st, threw |-> threw]

\* the branches of the handler's try block
Dispatch(st, msg, t) ==
    IF msg.type = "initialState"
    THEN OnInitialState(st, msg.payload, t)
    ELSE IF msg.clientId = "" THEN st
    ELSE IF msg.type = "summary"
    THEN OnSummary(st, msg.clientId, msg.timestamp, msg.payload, t)
    ELSE IF msg.type = "status"
    THEN OnStatus(st, msg.clientId, msg.timestamp, msg.state, t)
    ELSE IF msg.type = "patientConnected"
    THEN OnPatientConnected(st, msg.clientId, msg.timestamp, t)
    ELSE IF msg.type = "patientDisconnected"
    THEN OnPatientDisconnected(st, msg.clientId, msg.timestamp, t)
    ELSE IF msg.type = "patientRemoved"
    THEN OnPatientRemoved(st, msg.clientId)
    ELSE st

\* handleDashboardMessage without its try/catch
handleDashboardMessage_NoCatch(st, data, t) ==
    LET parsed == JSONParse(data)
    IN  IF parsed.threw
        THEN Outcome(st, TRUE)
        ELSE Outcome(Dispatch(st, parsed.msg, t), FALSE)

\* handleDashboardMessage treating a type it does not know as a sign of life
handleDashboardMessage_DefaultUpsert(st, data, t) ==
    LET parsed == JSONParse(data)
    IN  IF parsed.threw
        THEN Outcome(st, FALSE)
        ELSE IF parsed.msg.type \in {"initialState", "summary", "status",
                   "patientConnected", "patientDisconnected", "patientRemoved"}
        THEN Outcome(Dispatch(st, parsed.msg, t), FALSE)
        ELSE Outcome(OnPatientConnected(st, parsed.msg.clientId,
                                        parsed.msg.timestamp, t), FALSE)

\* try { JSON.parse; branches } catch { console.warn }
handleDashboardMessage(st, data, t) ==
    LET parsed == JSONParse(data)
    IN  IF parsed.threw
        THEN Outcome(st, FALSE)
        ELSE Outcome(Dispatch(st, parsed.msg, t), FALSE)

(***************************************************************************)
(* History records.                                                        *)
(***************************************************************************)
\* type: message type; at: Date.now() when it was handled; ts: the event
\* time it carried (timestamp, submittedAt or disconnectedAt; 0: none);
\* submitted: the payload's flag; pendingDue: due time of the removal timer
\* that was pending for the clientId when the frame arrived (0: none);
\* relayed: sent by onSubmit; listed: the clientId is in an initialState payload;
\* payload: the payload of a summary frame; state: the state of a status frame
NoFrame ==
    [type |-> "none", at |-> 0, ts |-> 0, submitted |-> FALSE,
     pendingDue |-> 0, relayed |-> FALSE, listed |-> FALSE,
     payload |-> UndefinedSummary, state |-> ""]

Frame(type, at, ts, submitted, pendingDue, relayed) ==
    [type |-> type, at |-> at, ts |-> ts, submitted |-> submitted,
     pendingDue |-> pendingDue, relayed |-> relayed, listed |-> FALSE,
     payload |-> UndefinedSummary, state |-> ""]

\* submittedAt of a submitted snapshot, disconnectedAt of a disconnected one
SnapshotEventTime(s) ==
    IF SubmittedWithTime(s.summary) THEN s.summary.submittedAt
    ELSE IF s.status = "disconnected" THEN s.disconnectedAt
    ELSE 0

InitialFrame(payload, c, t, pendingDue) ==
    IF c \in DOMAIN payload
    THEN [Frame("initialState", t, SnapshotEventTime(payload[c]),
                payload[c].summary.submitted, pendingDue, FALSE)
            EXCEPT !.listed = TRUE]
    ELSE Frame("initialState", t, 0, FALSE, pendingDue, FALSE)

\* due time of the removal timer recorded for c, 0 if none
PendingDue(c) ==
    IF c \in DOMAIN removalTimersRef
          /\ \E x \in timeouts : x.id = removalTimersRef[c]
    THEN (CHOOSE x \in timeouts : x.id = removalTimersRef[c]).due
    ELSE 0

Step(kind, c) == [kind |-> kind, clientId |-> c]

Here == HookState(patients, removalTimersRef, timeouts)

Commit(st) ==
    /\ patients' = st.p
    /\ removalTimersRef' = st.ref
    /\ timeouts' = st.to

CanReceive == mounted /\ nMsgs < MaxMsgs

\* kind: "key" or "focus"; at: Date.now() of the event; status: currentStatus
\* when it arrived; keyAt: Date.now() of the last keystroke (0: none)
NoInput == [kind |-> "none", at |-> 0, status |-> "", keyAt |-> 0]

(***************************************************************************)
(* JavaScript values, and JSON text as the sequence of its tokens.  An     *)
(* object is the sequence of its <<key, value>> properties in insertion    *)
(* order.                                                                  *)
(***************************************************************************)
Undefined == [t |-> "undefined"]

Null == [t |-> "null"]

Str(s) == [t |-> "string", s |-> s]

Num(n) == [t |-> "number", n |-> n]

Bool(b) == [t |-> "boolean", b |-> b]

Obj(props) == [t |-> "object", props |-> props]

\* obj[key] = value on an object without that key
SetProp(obj, key, value) == Obj(Append(obj.props, <<key, value>>))

\* key in obj
HasProp(obj, key) == \E k \in DOMAIN obj.props : obj.props[k][1] = key

\* obj[key]
GetProp(obj, key) ==
    IF HasProp(obj, key)
    THEN obj.props[CHOOSE k \in DOMAIN obj.props : obj.props[k][1] = key][2]
    ELSE Undefined

Punct(c) == [k |-> c]

StrToken(s) == [k |-> "string", s |-> s]

NumToken(n) == [k |-> "number", n |-> n]

\* JSON.stringify of a value inside an object or at the top: a property whose
\* value is undefined is left out, members are separated by commas
RECURSIVE JSONStringify(_)
RECURSIVE StringifyMembers(_, _, _)
StringifyMembers(props, k, first) ==
    IF k > Len(props) THEN << >>
    ELSE IF props[k][2] = Undefined
    THEN StringifyMembers(props, k + 1, first)
    ELSE (IF first THEN << >> ELSE <<Punct(",")>>)
         \o <<StrToken(props[k][1]), Punct(":")>>
         \o JSONStringify(props[k][2])
         \o StringifyMembers(props, k + 1, FALSE)

JSONStringify(value) ==
    CASE value.t = "null" -> <<Punct("null")>>
      [] value.t = "string" -> <<StrToken(value.s)>>
      [] value.t = "number" -> <<NumToken(value.n)>>
      [] value.t = "boolean" -> <<Punct(IF value.b THEN "true" ELSE "false")>>
      [] value.t = "object" ->
            <<Punct("{")>> \o StringifyMembers(value.props, 1, TRUE) \o <<Punct("}")>>

\* result of parsing from token i on: the value and the index after it, or a
\* SyntaxError
Parsed(value, next) == [threw |-> FALSE, value |-> value, next |-> next]

SyntaxError == [threw |-> TRUE, value |-> Undefined, next |-> 0]

RECURSIVE ParseValue(_, _)
RECURSIVE ParseMembers(_, _, _)
\* the members of an object from token i on, up to its closing brace
ParseMembers(toks, i, props) ==
    IF i + 2 > Len(toks) \/ toks[i].k # "string" \/ toks[i + 1].k # ":"
    THEN SyntaxError
    ELSE LET v == ParseValue(toks, i + 2)
         IN  IF v.threw \/ v.next > Len(toks)
             THEN SyntaxError
             ELSE LET more == Append(props, <<toks[i].s, v.value>>)
                  IN  IF toks[v.next].k = "}"
                      THEN Parsed(Obj(more), v.next + 1)
                      ELSE IF toks[v.next].k = ","
                      THEN ParseMembers(toks, v.next + 1, more)
                      ELSE SyntaxError

ParseValue(toks, i) ==
    IF i > Len(toks) THEN SyntaxError
    ELSE CASE toks[i].k = "null" -> Parsed(Null, i + 1)
           [] toks[i].k = "true" -> Parsed(Bool(TRUE), i + 1)
           [] toks[i].k = "false" -> Parsed(Bool(FALSE), i + 1)
           [] toks[i].k = "string" -> Parsed(Str(toks[i].s), i + 1)
           [] toks[i].k = "number" -> Parsed(Num(toks[i].n), i + 1)
           [] toks[i].k = "{" ->
                 IF i + 1 <= Len(toks) /\ toks[i + 1].k = "}"
                 THEN Parsed(Obj(<< >>), i + 2)
                 ELSE ParseMembers(toks, i + 1, << >>)
           [] OTHER -> SyntaxError

\* JSON.parse of a text given by its tokens
ParseJSON(toks) ==
    LET v == ParseValue(toks, 1)
    IN  IF v.threw \/ v.next # Len(toks) + 1
        THEN [threw |-> TRUE, value |-> Undefined]
        ELSE [threw |-> FALSE, value |-> v.value]

\* createWSMessage adding the payload and the state only when they are truthy
createWSMessage_TruthyFields(type, clientId, payload, state, t) ==
    LET message == Obj(<< <<"type", Str(type)>>, <<"clientId", Str(clientId)>>,
                          <<"timestamp", Num(t)>> >>)
        falsy == {Undefined, Null, Str(""), Num(0), Bool(FALSE)}
        m1 == IF payload \notin falsy THEN SetProp(message, "payload", payload)
              ELSE message
        m2 == IF state \notin falsy THEN SetProp(m1, "state", state) ELSE m1
    IN  JSONStringify(m2)

\* createWSMessage: the envelope, with a payload and a state only if they are
\* not undefined, as JSON text
createWSMessage(type, clientId, payload, state, t) ==
    LET message == Obj(<< <<"type", Str(type)>>, <<"clientId", Str(clientId)>>,
                          <<"timestamp", Num(t)>> >>)
        m1 == IF payload # Undefined THEN SetProp(message, "payload", payload)
              ELSE message
        m2 == IF state # Undefined THEN SetProp(m1, "state", state) ELSE m1
    IN  JSONStringify(m2)

\* no call yet
NoCall == [type |-> "", clientId |-> "", payload |-> Undefined, state |-> Undefined]

NotDecoded == [threw |-> FALSE, value |-> Undefined]

\* the props of a hook that has not been rendered
NoDeps == [room |-> "", clientId |-> "", callbacks |-> 0]

\* the patient page has not been submitted
NoSubmit ==
    /\ isSubmitting = FALSE
    /\ redirectAt = 0

\* no staff live view is rendered
NoView ==
    /\ viewStatus = "online"
    /\ viewForm = [required |-> 0, optional |-> 0]
    /\ viewLastUpdate = 0
    /\ viewRedirects = {}
    /\ viewPhase = "none"

\* no useWebSocket instance is followed
NoHook ==
    /\ hookDeps = NoDeps
    /\ hookSockets = << >>
    /\ hookWs = 0
    /\ hookMounted = FALSE
    /\ nRenders = 0

\* no call of createWSMessage is followed
NoCodec ==
    /\ callArgs = NoCall
    /\ calledAt = 0
    /\ wireText = << >>
    /\ decoded = NotDecoded

NoUnits == NoView /\ NoHook /\ NoCodec

\* the staff dashboard right after its first render
DashboardInit ==
    /\ variant \in Variants
    /\ mounted = TRUE
    /\ patients = EmptyMap
    /\ removalTimersRef = EmptyMap
    /\ timeouts = {}
    /\ wire = << >>
    /\ lastFor = [c \in ClientIds |-> NoFrame]
    /\ lastStep = Step("init", "")
    /\ nMsgs = 0
    /\ uncaught = FALSE
    /\ socketsRef = EmptyMap
    /\ liveSockets = << >>
    /\ nUpdates = 0

\* no message
NoMessage == Msg("", "", 0, UndefinedSummary, "")

\* no transport error event yet
NoError == [socket |-> "", seen |-> "", forwarded |-> FALSE]

\* the form with every field empty: the numbers of filled required fields and
\* of filled optional fields
NoForm == [required |-> 0, optional |-> 0]

\* the page has no socket, no debounced summary and an empty form
NoChannels ==
    /\ patientWS = "none"
    /\ dashboardWS = "none"
    /\ sentOwn = << >>
    /\ sentDash = << >>
    /\ debounceTimer = 0
    /\ dashTimeouts = {}
    /\ formValues = NoForm
    /\ lastDebounced = NoMessage
    /\ lastError = NoError
    /\ nErrors = 0

\* no patient page is rendered
NoPage ==
    /\ NoChannels
    /\ NoSubmit
    /\ nSubmits = 0
    /\ nForms = 0
    /\ patientId = ""
    /\ currentStatus = "online"
    /\ activityTimerRef = 0
    /\ idleTimerRef = 0
    /\ pageTimeouts = {}
    /\ pageMounted = FALSE
    /\ emitted = << >>
    /\ lastInput = NoInput
    /\ nInputs = 0

Init ==
    /\ DashboardInit
    /\ nSockets = 0
    /\ now = StartTime
    /\ NoPage
    /\ NoUnits

(***************************************************************************)
(* handleDashboardMessage, one action for each message type.               *)
(***************************************************************************)
RecvInitialState ==
    /\ CanReceive
    /\ \E payload \in InitialPayloads(now) :
          /\ Commit(OnInitialState(Here, payload, now))
          /\ lastFor' = [c \in ClientIds |->
                            InitialFrame(payload, c, now, PendingDue(c))]
    /\ lastStep' = Step("initialState", "")
    /\ nMsgs' = nMsgs + 1
    /\ UNCHANGED <<submitVars, unitVars, variant, now, mounted, wire,
                   uncaught, liveVars, pageVars, chanVars>>

RecvSummary ==
    /\ CanReceive
    /\ \E c \in ClientIds, ts \in ArrivalTimestamps(now), payload \in SummaryPayloads(now) :
          /\ Commit(OnSummary(Here, c, ts, payload, now))
          /\ lastFor' = [lastFor EXCEPT ![c] =
                 [Frame("summary", now, payload.submittedAt, payload.submitted,
                        PendingDue(c), FALSE) EXCEPT !.payload = payload]]
          /\ lastStep' = Step("summary", c)
    /\ nMsgs' = nMsgs + 1
    /\ UNCHANGED <<submitVars, unitVars, variant, now, mounted, wire,
                   uncaught, liveVars, pageVars, chanVars>>

RecvStatus ==
    /\ CanReceive
    /\ \E c \in ClientIds, ts \in StatusTimestamps(now), state \in validStatuses :
          /\ Commit(OnStatus(Here, c, ts, state, now))
          /\ lastFor' = [lastFor EXCEPT ![c] =
                 [Frame("status", now, ts, FALSE, PendingDue(c), FALSE)
                     EXCEPT !.state = state]]
          /\ lastStep' = Step("status", c)
    /\ nMsgs' = nMsgs + 1
    /\ UNCHANGED <<submitVars, unitVars, variant, now, mounted, wire,
                   uncaught, liveVars, pageVars, chanVars>>

RecvPatientConnected ==
    /\ CanReceive
    /\ \E c \in ClientIds, ts \in ArrivalTimestamps(now) :
          /\ Commit(OnPatientConnected(Here, c, ts, now))
          /\ lastFor' = [lastFor EXCEPT ![c] =
                 Frame("patientConnected", now, ts, FALSE, PendingDue(c), FALSE)]
          /\ lastStep' = Step("patientConnected", c)
    /\ nMsgs' = nMsgs + 1
    /\ UNCHANGED <<submitVars, unitVars, variant, now, mounted, wire,
                   uncaught, liveVars, pageVars, chanVars>>

RecvPatientDisconnected ==
    /\ CanReceive
    /\ \E c \in ClientIds, ts \in MsgTimestamps(now) :
          /\ Commit(OnPatientDisconnected(Here, c, ts, now))
          /\ lastFor' = [lastFor EXCEPT ![c] =
                 Frame("patientDisconnected", now, ts, FALSE, PendingDue(c), FALSE)]
          /\ lastStep' = Step("patientDisconnected", c)
    /\ nMsgs' = nMsgs + 1
    /\ UNCHANGED <<submitVars, unitVars, variant, now, mounted, wire,
                   uncaught, liveVars, pageVars, chanVars>>

RecvPatientRemoved ==
    /\ CanReceive
    /\ \E c \in ClientIds :
          /\ Commit(OnPatientRemoved(Here, c))
          /\ lastFor' = [lastFor EXCEPT ![c] =
                 Frame("patientRemoved", now, 0, FALSE, PendingDue(c), FALSE)]
          /\ lastStep' = Step("patientRemoved", c)
    /\ nMsgs' = nMsgs + 1
    /\ UNCHANGED <<submitVars, unitVars, variant, now, mounted, wire,
                   uncaught, liveVars, pageVars, chanVars>>

(***************************************************************************)
(* Frames the reconciler drops.                                            *)
(***************************************************************************)
\* message types the reconciler has no branch for
UnknownTypes == {"formSnapshot", "ping"}

\* states that are missing or outside validStatuses
InvalidStates == {"", "offline"}

Handle(data) ==
    LET out == handleDashboardMessage(Here, data, now)
    IN  /\ Commit(out.st)
        /\ uncaught' = (uncaught \/ out.threw)

RecvMalformed ==
    /\ CanReceive
    /\ \E data \in MalformedFrames : Handle(data)
    /\ lastStep' = Step("malformed", "")
    /\ nMsgs' = nMsgs + 1
    /\ UNCHANGED <<submitVars, unitVars, variant, now, mounted, wire, lastFor, liveVars, pageVars, chanVars>>

RecvUnknownType ==
    /\ CanReceive
    /\ \E type \in UnknownTypes, c \in ClientIds, ts \in ArrivalTimestamps(now),
          state \in {"", "online"} :
          /\ Handle(Msg(type, c, ts, Summary(50, FALSE, 0), state))
          /\ lastStep' = Step("unknownType", c)
    /\ nMsgs' = nMsgs + 1
    /\ UNCHANGED <<submitVars, unitVars, variant, now, mounted, wire, lastFor, liveVars, pageVars, chanVars>>

RecvInvalidStatus ==
    /\ CanReceive
    /\ \E c \in ClientIds, ts \in StatusTimestamps(now), state \in InvalidStates :
          /\ Handle(Msg("status", c, ts, UndefinedSummary, state))
          /\ lastStep' = Step("invalidStatus", c)
    /\ nMsgs' = nMsgs + 1
    /\ UNCHANGED <<submitVars, unitVars, variant, now, mounted, wire, lastFor, liveVars, pageVars, chanVars>>

(***************************************************************************)
(* usePatientLiveConnections, with StaffDashboard.handlePatientUpdate as   *)
(* the onUpdate callback.                                                  *)
(***************************************************************************)
\* message types that feed onUpdate
LiveTypes == {"formSnapshot", "submit", "formUpdate"}

\* `{...prev[patientId]?.summary, ...data}` for form values, which carry none
\* of the summary's own fields
MergeFormValues(p, c) ==
    [PrevSummary(p, c) EXCEPT !.kind = "data"]

\* timestamps tried on live-detail frames
LiveTimestamps(t) == {0, t - TickMs, t}

handlePatientUpdate(st, id, timestamp) ==
    [st EXCEPT !.p = Put(st.p, id,
        [summary |-> MergeFormValues(st.p, id),
         ts |-> timestamp,
         isLiveConnected |-> "true",
         status |-> PrevStatus(st.p, id),
         lastActivity |-> timestamp])]

\* what ws.onmessage leaves behind: the hook state, the number of onUpdate
\* calls, and whether an exception left the handler
LiveOutcome(st, updates, threw) == [st |-> st, updates |-> updates, threw |-> threw]

\* ws.onmessage calling onUpdate for formSnapshot frames only
onLiveMessage_SnapshotOnly(st, id, data, t) ==
    LET parsed == JSONParse(data)
    IN  IF parsed.threw
        THEN LiveOutcome(st, 0, FALSE)
        ELSE IF parsed.msg.type = "formSnapshot"
        THEN LiveOutcome(handlePatientUpdate(st, id, OrNow(parsed.msg.timestamp, t)),
                         1, FALSE)
        ELSE LiveOutcome(st, 0, FALSE)

\* ws.onmessage of a live-detail socket
onLiveMessage(st, id, data, t) ==
    LET parsed == JSONParse(data)
    IN  IF parsed.threw
        THEN LiveOutcome(st, 0, FALSE)
        ELSE IF parsed.msg.type \in LiveTypes
        THEN LiveOutcome(handlePatientUpdate(st, id, OrNow(parsed.msg.timestamp, t)),
                         1, FALSE)
        ELSE LiveOutcome(st, 0, FALSE)

\* a socket made by connectWS(patientId) and what the hook did to it
LiveSocket(id, readyState, closeCalled) ==
    [id |-> id, readyState |-> readyState, closeCalled |-> closeCalled]

\* the state usePatientLiveConnections works on: the ref and the sockets
LiveState(ref, sockets) == [ref |-> ref, sockets |-> sockets]

LiveHere == LiveState(socketsRef, liveSockets)

LiveCommit(ls) ==
    /\ socketsRef' = ls.ref
    /\ liveSockets' = ls.sockets

\* ws.close() on the socket numbered k
CloseSocket(sockets, k) ==
    [sockets EXCEPT ![k] = LiveSocket(@.id,
                                      IF @.readyState \in {"connecting", "open"}
                                      THEN "closing" ELSE @.readyState,
                                      TRUE)]

\* connectToPatient: nothing if the ref has an entry for the id, else a new
\* socket that the ref records
ConnectTo(ls, id) ==
    IF id \in DOMAIN ls.ref
    THEN ls
    ELSE LiveState(Put(ls.ref, id, Len(ls.sockets) + 1),
                   Append(ls.sockets, LiveSocket(id, "connecting", FALSE)))

\* ws.onclose of the socket numbered k: delete socketsRef.current[patientId]
OnLiveClose(ls, k) ==
    LiveState(Remove(ls.ref, ls.sockets[k].id),
              [ls.sockets EXCEPT ![k].readyState = "closed"])

\* disconnectFromPatient
DisconnectFrom(ls, id) ==
    IF id \in DOMAIN ls.ref
    THEN LiveState(Remove(ls.ref, id), CloseSocket(ls.sockets, ls.ref[id]))
    ELSE ls

RECURSIVE CloseEach(_, _, _)
\* Object.keys(socketsRef.current).forEach(close)
CloseEach(sockets, ref, ids) ==
    IF ids = {}
    THEN sockets
    ELSE LET id == CHOOSE x \in ids : TRUE
         IN  CloseEach(CloseSocket(sockets, ref[id]), ref, ids \ {id})

\* disconnectAll: every socket the ref names is closed, then the ref is reset
DisconnectAll(ls) ==
    LiveState(EmptyMap, CloseEach(ls.sockets, ls.ref, DOMAIN ls.ref))

connectToPatient ==
    /\ mounted
    /\ nSockets < MaxSockets
    /\ \E id \in ClientIds :
          /\ LiveCommit(ConnectTo(LiveHere, id))
          /\ nSockets' = IF id \in DOMAIN socketsRef THEN nSockets ELSE nSockets + 1
          /\ lastStep' = Step("connectToPatient", id)
    /\ UNCHANGED <<submitVars, unitVars, variant, now, mounted, patients, removalTimersRef, timeouts,
                   wire, lastFor, nMsgs, uncaught, nUpdates, pageVars, chanVars>>

\* ws.onopen of a live-detail socket: it only logs
LiveOpen ==
    /\ \E k \in DOMAIN liveSockets :
          /\ liveSockets[k].readyState = "connecting"
          /\ liveSockets' = [liveSockets EXCEPT ![k].readyState = "open"]
          /\ lastStep' = Step("liveOpen", liveSockets[k].id)
    /\ UNCHANGED <<submitVars, unitVars, variant, now, mounted, patients, removalTimersRef, timeouts,
                   wire, lastFor, nMsgs, uncaught, socketsRef, nSockets, nUpdates,
                   pageVars, chanVars>>

HandleLive(id, data) ==
    LET out == onLiveMessage(Here, id, data, now)
    IN  /\ Commit(out.st)
        /\ nUpdates' = nUpdates + out.updates
        /\ uncaught' = (uncaught \/ out.threw)

\* a frame that is not JSON arrives on a live-detail socket
LiveMalformed ==
    /\ nMsgs < MaxMsgs
    /\ \E k \in DOMAIN liveSockets, data \in MalformedFrames :
          /\ liveSockets[k].readyState = "open"
          /\ HandleLive(liveSockets[k].id, data)
          /\ lastStep' = Step("liveMalformed", liveSockets[k].id)
    /\ nMsgs' = nMsgs + 1
    /\ UNCHANGED <<submitVars, unitVars, variant, now, mounted, wire, lastFor, socketsRef, liveSockets,
                   nSockets, pageVars, chanVars>>

\* a message arrives on a live-detail socket
LiveMessage ==
    /\ nMsgs < MaxMsgs
    /\ \E k \in DOMAIN liveSockets, type \in LiveTypes \cup {"status"},
          ts \in LiveTimestamps(now) :
          /\ liveSockets[k].readyState = "open"
          /\ HandleLive(liveSockets[k].id,
                        Msg(type, liveSockets[k].id, ts, EmptySummary, ""))
          /\ lastStep' = Step(IF type \in LiveTypes THEN "liveUpdate" ELSE "liveOther",
                              liveSockets[k].id)
    /\ nMsgs' = nMsgs + 1
    /\ UNCHANGED <<submitVars, unitVars, variant, now, mounted, wire, lastFor, socketsRef, liveSockets,
                   nSockets, pageVars, chanVars>>

\* ws.onclose of a live-detail socket
LiveClose ==
    /\ \E k \in DOMAIN liveSockets :
          /\ liveSockets[k].readyState # "closed"
          /\ LiveCommit(OnLiveClose(LiveHere, k))
          /\ lastStep' = Step("liveClose", liveSockets[k].id)
    /\ UNCHANGED <<submitVars, unitVars, variant, now, mounted, patients, removalTimersRef, timeouts,
                   wire, lastFor, nMsgs, uncaught, nSockets, nUpdates, pageVars,
                   chanVars>>

\* a call of disconnectFromPatient
disconnectFromPatient ==
    /\ mounted
    /\ \E id \in ClientIds :
          /\ LiveCommit(DisconnectFrom(LiveHere, id))
          /\ lastStep' = Step("disconnectFromPatient", id)
    /\ UNCHANGED <<submitVars, unitVars, variant, now, mounted, patients, removalTimersRef, timeouts,
                   wire, lastFor, nMsgs, uncaught, nSockets, nUpdates, pageVars,
                   chanVars>>

\* a call of disconnectAll
disconnectAll ==
    /\ mounted
    /\ LiveCommit(DisconnectAll(LiveHere))
    /\ lastStep' = Step("disconnectAll", "")
    /\ UNCHANGED <<submitVars, unitVars, variant, now, mounted, patients, removalTimersRef, timeouts,
                   wire, lastFor, nMsgs, uncaught, nSockets, nUpdates, pageVars,
                   chanVars>>

(***************************************************************************)
(* PatientPage.onSubmit: the summary it sends on the dashboard connection, *)
(* relayed unchanged by the server.                                        *)
(***************************************************************************)
\* the message object that createWSMessage serialises when it is given a
\* payload and no state
createWSMessageObject(type, clientId, payload, t) ==
    [type |-> type, clientId |-> clientId, timestamp |-> t, payload |-> payload]

onSubmit ==
    /\ mounted
    /\ Len(wire) < MaxWire
    /\ \E c \in ClientIds :
          /\ wire' = Append(wire, createWSMessageObject("summary", c, Summary(100, TRUE, 0), now))
          /\ lastStep' = Step("onSubmit", c)
    /\ UNCHANGED <<submitVars, unitVars, variant, now, mounted, patients, removalTimersRef, timeouts,
                   lastFor, nMsgs,
                   uncaught, liveVars, pageVars, chanVars>>

DeliverRelayed ==
    /\ CanReceive
    /\ wire # << >>
    /\ LET msg == Head(wire)
       IN  /\ Commit(OnSummary(Here, msg.clientId, msg.timestamp, msg.payload, now))
           /\ lastFor' = [lastFor EXCEPT ![msg.clientId] =
                  [Frame("summary", now, msg.timestamp, msg.payload.submitted,
                         PendingDue(msg.clientId), TRUE)
                      EXCEPT !.payload = msg.payload]]
           /\ lastStep' = Step("summary", msg.clientId)
    /\ wire' = Tail(wire)
    /\ nMsgs' = nMsgs + 1
    /\ UNCHANGED <<submitVars, unitVars, variant, now, mounted,
                   uncaught, liveVars, pageVars, chanVars>>

(***************************************************************************)
(* Timers and the clock.                                                   *)
(***************************************************************************)
\* callback of a removal timer armed by scheduleRemoval
RemovalTimerFires ==
    /\ \E x \in timeouts :
          /\ x.due <= now
          /\ patients' = Remove(patients, x.clientId)
          /\ removalTimersRef' = Remove(removalTimersRef, x.clientId)
          /\ timeouts' = timeouts \ {x}
          /\ lastStep' = Step("timer", x.clientId)
    /\ UNCHANGED <<submitVars, unitVars, variant, now, mounted, wire, lastFor, nMsgs,
                   uncaught, liveVars, pageVars, chanVars>>

\* the clock advances, but never past the due time of a pending timer
Tick ==
    /\ now < StartTime + MaxTicks * TickMs
    /\ \A x \in timeouts : x.due > now
    /\ LET target == now + TickMs
           dues == {x.due : x \in timeouts}
       IN  now' = IF \E d \in dues : d < target
                  THEN CHOOSE d \in dues : \A e \in dues : d <= e
                  ELSE target
    /\ lastStep' = Step("tick", "")
    /\ UNCHANGED <<submitVars, unitVars, variant, mounted, patients, removalTimersRef, timeouts,
                   wire, lastFor, nMsgs,
                   uncaught, liveVars, pageVars, chanVars>>

\* cleanup effects of useStaffDashboard and of usePatientLiveConnections
Unmount ==
    /\ mounted
    /\ mounted' = FALSE
    /\ timeouts' = IF variant = "timers"
                   THEN {x \in timeouts : \A c \in DOMAIN removalTimersRef :
                                             removalTimersRef[c] # x.id}
                   ELSE timeouts
    /\ removalTimersRef' = EmptyMap
    /\ LiveCommit(DisconnectAll(LiveHere))
    /\ lastStep' = Step("unmount", "")
    /\ UNCHANGED <<submitVars, unitVars, variant, now, patients, wire, lastFor, nMsgs,
                   uncaught, nSockets, nUpdates, pageVars, chanVars>>

Next ==
    \/ RecvInitialState
    \/ RecvSummary
    \/ RecvStatus
    \/ RecvPatientConnected
    \/ RecvPatientDisconnected
    \/ RecvPatientRemoved
    \/ onSubmit
    \/ DeliverRelayed
    \/ RemovalTimerFires
    \/ Tick
    \/ Unmount

Spec == Init /\ [][Next]_vars

(***************************************************************************)
(* The dashboard with its live-detail sockets, fed every kind of frame.    *)
(***************************************************************************)
LiveInit ==
    /\ DashboardInit
    /\ nSockets = MaxSockets - LiveSockets
    /\ now = StartTime + (MaxTicks - LiveTicks) * TickMs
    /\ NoPage
    /\ NoUnits

LiveNext ==
    \/ RecvInitialState
    \/ RecvSummary
    \/ RecvStatus
    \/ RecvPatientConnected
    \/ RecvPatientDisconnected
    \/ RecvPatientRemoved
    \/ RecvMalformed
    \/ RecvUnknownType
    \/ RecvInvalidStatus
    \/ connectToPatient
    \/ LiveOpen
    \/ LiveMalformed
    \/ LiveMessage
    \/ LiveClose
    \/ RemovalTimerFires
    \/ Tick
    \/ Unmount

LiveSpec == LiveInit /\ [][LiveNext]_vars

(***************************************************************************)
(* usePatientLiveConnections under every interleaving of its three         *)
(* functions, the transport events of its sockets and the unmount.         *)
(***************************************************************************)
SocketInit ==
    /\ DashboardInit
    /\ nSockets = 0
    /\ now = StartTime
    /\ NoPage
    /\ NoUnits

SocketNext ==
    \/ connectToPatient
    \/ LiveOpen
    \/ LiveClose
    \/ disconnectFromPatient
    \/ disconnectAll
    \/ Unmount

SocketSpec == SocketInit /\ [][SocketNext]_vars

(***************************************************************************)
(* The presence machine of PatientPage.  The state its handlers work on:   *)
(* the React state `status`, the refs `act` and `idle`, the browser's      *)
(* pending timeouts `to`, the status messages sent so far `out`, and what   *)
(* the own-room socket and the dashboard socket have transmitted, `own`    *)
(* and `dash`.                                                             *)
(***************************************************************************)
PageState(status, act, idle, to, out, own, dash) ==
    [status |-> status, act |-> act, idle |-> idle, to |-> to, out |-> out,
     own |-> own, dash |-> dash]

PageHere ==
    PageState(currentStatus, activityTimerRef, idleTimerRef, pageTimeouts, emitted,
              sentOwn, sentDash)

PageCommit(pg) ==
    /\ currentStatus' = pg.status
    /\ activityTimerRef' = pg.act
    /\ idleTimerRef' = pg.idle
    /\ pageTimeouts' = pg.to
    /\ emitted' = pg.out
    /\ sentOwn' = pg.own
    /\ sentDash' = pg.dash

\* id returned by window.setTimeout: larger than every id handed out that a
\* ref or a pending timeout still names
NextTimerId(pg) ==
    LET used == {x.id : x \in pg.to} \cup {pg.act, pg.idle}
    IN  1 + (CHOOSE m \in used : \A i \in used : i <= m)

\* `if (ref.current) window.clearTimeout(ref.current)`
ClearPageTimer(to, id) == {x \in to : x.id # id}

\* window.setTimeout(() => sendStatusRef.current(status), delay)
PageTimer(id, kind, status, due) ==
    [id |-> id, kind |-> kind, status |-> status, due |-> due]

\* send handing the message to the socket whatever its ready state
send_Always(readyState, sent, message) == Append(sent, message)

\* useWebSocket's send: the message is transmitted on an open socket and
\* dropped with a warning otherwise
send(readyState, sent, message) ==
    IF readyState = "open" THEN Append(sent, message) ELSE sent

\* sendStatusUpdate: the message goes to dashboardWS.sendImmediate and to
\* patientWS.send, then setCurrentStatus
sendStatusUpdate(pg, status, t) ==
    IF patientId = ""
    THEN pg
    ELSE LET message == Msg("status", patientId, t, UndefinedSummary, status)
         IN  [pg EXCEPT !.dash = send(dashboardWS, pg.dash, message),
                        !.own = send(patientWS, pg.own, message),
                        !.out = Append(pg.out, [status |-> status, at |-> t]),
                        !.status = status]

\* handleKeyboardInput sending "updating" on every keystroke
handleKeyboardInput_AlwaysEmits(pg, t) ==
    LET pg1 == [pg EXCEPT !.to = ClearPageTimer(ClearPageTimer(pg.to, pg.act), pg.idle)]
        pg2 == sendStatusUpdate(pg1, "updating", t)
        a == NextTimerId(pg2)
        pg3 == [pg2 EXCEPT !.act = a,
                           !.to = pg2.to \cup
                                  {PageTimer(a, "online", "online", t + ONLINE_TIMEOUT)}]
        i == NextTimerId(pg3)
    IN  [pg3 EXCEPT !.idle = i,
                    !.to = pg3.to \cup {PageTimer(i, "idle", "idle", t + IDLE_TIMEOUT)}]

\* handleKeyboardInput arming its timers without clearing the pending ones
handleKeyboardInput_KeepsTimers(pg, t) ==
    LET pg2 == IF pg.status # "updating"
               THEN sendStatusUpdate(pg, "updating", t)
               ELSE pg
        a == NextTimerId(pg2)
        pg3 == [pg2 EXCEPT !.act = a,
                           !.to = pg2.to \cup
                                  {PageTimer(a, "online", "online", t + ONLINE_TIMEOUT)}]
        i == NextTimerId(pg3)
    IN  [pg3 EXCEPT !.idle = i,
                    !.to = pg3.to \cup {PageTimer(i, "idle", "idle", t + IDLE_TIMEOUT)}]

handleKeyboardInput(pg, t) ==
    LET pg1 == [pg EXCEPT !.to = ClearPageTimer(ClearPageTimer(pg.to, pg.act), pg.idle)]
        pg2 == IF pg1.status # "updating"
               THEN sendStatusUpdate(pg1, "updating", t)
               ELSE pg1
        a == NextTimerId(pg2)
        pg3 == [pg2 EXCEPT !.act = a,
                           !.to = pg2.to \cup
                                  {PageTimer(a, "online", "online", t + ONLINE_TIMEOUT)}]
        i == NextTimerId(pg3)
    IN  [pg3 EXCEPT !.idle = i,
                    !.to = pg3.to \cup {PageTimer(i, "idle", "idle", t + IDLE_TIMEOUT)}]

\* handleInputFocus arming the idle timer without clearing the pending one
handleInputFocus_KeepsIdleTimer(pg, t) ==
    LET pg2 == IF pg.status = "idle"
               THEN sendStatusUpdate(pg, "online", t)
               ELSE pg
        i == NextTimerId(pg2)
    IN  [pg2 EXCEPT !.idle = i,
                    !.to = pg2.to \cup {PageTimer(i, "idle", "idle", t + IDLE_TIMEOUT)}]

handleInputFocus(pg, t) ==
    LET pg1 == [pg EXCEPT !.to = ClearPageTimer(pg.to, pg.idle)]
        pg2 == IF pg1.status = "idle"
               THEN sendStatusUpdate(pg1, "online", t)
               ELSE pg1
        i == NextTimerId(pg2)
    IN  [pg2 EXCEPT !.idle = i,
                    !.to = pg2.to \cup {PageTimer(i, "idle", "idle", t + IDLE_TIMEOUT)}]

\* ids that generatePatientId may return
PatientIds == {"p1"}

\* the page right after its first render, the dashboard variables at rest
PatientInit ==
    /\ DashboardInit
    /\ nSockets = 0
    /\ NoChannels
    /\ NoSubmit
    /\ nSubmits = MaxSubmits
    /\ NoUnits
    /\ nForms = MaxForms
    /\ variant = "timers"
    /\ now = StartTime
    /\ patientId = ""
    /\ currentStatus = "online"
    /\ activityTimerRef = 0
    /\ idleTimerRef = 0
    /\ pageTimeouts = {}
    /\ pageMounted = TRUE
    /\ emitted = << >>
    /\ lastInput = NoInput
    /\ nInputs = 0

dashVars == <<variant, mounted, patients, removalTimersRef, timeouts, wire,
              lastFor, nMsgs, uncaught, liveVars>>

\* what the presence handlers leave alone: the sockets, the debounced summary
\* and the form
formVars == <<patientWS, dashboardWS, debounceTimer, dashTimeouts, formValues,
              nForms, lastDebounced, lastError, nErrors>>

\* the mount effects: setPatientId, then the settle timer and the idle timer
MountEffects ==
    /\ pageMounted
    /\ patientId = ""
    /\ \E id \in PatientIds :
          /\ patientId' = id
          /\ lastStep' = Step("mountEffects", id)
    /\ LET s == NextTimerId(PageHere)
           i == s + 1
       IN  /\ idleTimerRef' = i
           /\ pageTimeouts' = pageTimeouts \cup
                  { PageTimer(s, "settle", "online", now + SETTLE_DELAY),
                    PageTimer(i, "idle", "idle", now + IDLE_TIMEOUT) }
    /\ patientWS' = "connecting"
    /\ dashboardWS' = "connecting"
    /\ UNCHANGED <<submitVars, unitVars, now, currentStatus, activityTimerRef, pageMounted, emitted,
                   lastInput, nInputs, dashVars, sentOwn, sentDash,
                   debounceTimer, dashTimeouts, formValues, nForms,
                   lastDebounced, lastError, nErrors>>

\* input events are dispatched once the mount effects have run
CanInput == pageMounted /\ patientId # "" /\ nInputs < MaxInputs

\* onKeyDown
Keystroke ==
    /\ CanInput
    /\ PageCommit(handleKeyboardInput(PageHere, now))
    /\ lastInput' = [kind |-> "key", at |-> now, status |-> currentStatus,
                     keyAt |-> now]
    /\ nInputs' = nInputs + 1
    /\ lastStep' = Step("key", patientId)
    /\ UNCHANGED <<submitVars, unitVars, now, patientId, pageMounted, dashVars, formVars>>

\* onInputFocus
Focus ==
    /\ CanInput
    /\ PageCommit(handleInputFocus(PageHere, now))
    /\ lastInput' = [kind |-> "focus", at |-> now, status |-> currentStatus,
                     keyAt |-> lastInput.keyAt]
    /\ nInputs' = nInputs + 1
    /\ lastStep' = Step("focus", patientId)
    /\ UNCHANGED <<submitVars, unitVars, now, patientId, pageMounted, dashVars, formVars>>

\* callback of a timer armed by the page: sendStatusRef.current(status); after
\* the unmount setCurrentStatus has no component to update
PageTimerFires ==
    /\ \E x \in pageTimeouts :
          /\ x.due <= now
          /\ LET pg == [PageHere EXCEPT !.to = pageTimeouts \ {x}]
                 sent == sendStatusUpdate(pg, x.status, now)
             IN  PageCommit(IF pageMounted THEN sent
                            ELSE [sent EXCEPT !.status = pg.status])
          /\ lastStep' = Step(x.kind, patientId)
    /\ UNCHANGED <<submitVars, unitVars, now, patientId, pageMounted, lastInput, nInputs, dashVars,
                   formVars>>

\* Date.now() of the last input event or change of the form
LastPageEvent ==
    Max(Max(StartTime, lastInput.at), lastDebounced.timestamp)

\* an input event or a change of the form can still reach the page, or a
\* debounced summary is pending
EventsToCome ==
    \/ pageMounted /\ ( nInputs < MaxInputs \/ nForms < MaxForms )
    \/ dashTimeouts # {}

\* the clock advances, but never past the due time of a pending timer; it is
\* followed in fine steps only while an event can still come
PageTick ==
    /\ patientId # ""
    /\ LET target == IF dashTimeouts # {}
                     THEN now + DebounceTickMs
                     ELSE (now \div PageTickMs + 1) * PageTickMs
           dues == {x.due : x \in pageTimeouts} \cup {x.due : x \in dashTimeouts}
                   \cup (IF redirectAt # 0 THEN {redirectAt} ELSE {})
           next == CHOOSE d \in dues : \A e \in dues : d <= e
       IN  /\ \A d \in dues : d > now
           /\ IF EventsToCome /\ target <= LastPageEvent + FineWindow
              THEN now' = IF dues # {} /\ next < target THEN next ELSE target
              ELSE dues # {} /\ now' = next
    /\ lastStep' = Step("tick", "")
    /\ UNCHANGED <<submitVars, unitVars, pageVars, dashVars, chanVars>>

\* the cleanup of useWebSocket's effect: ws.close(), in the later generation
\* only on a socket that is connecting or open
close(readyState) ==
    IF readyState \in {"connecting", "open"} THEN "closing" ELSE readyState

\* the cleanups run at unmount: of the mount effect (the settle timer and the
\* idle timer), of useDashboardWebSocket (the debounce timer) and of the two
\* useWebSocket effects
PageCleanups ==
    /\ pageMounted' = FALSE
    /\ pageTimeouts' = {x \in pageTimeouts : x.kind # "settle" /\ x.id # idleTimerRef}
    /\ idleTimerRef' = 0
    /\ dashTimeouts' = {x \in dashTimeouts : x.id # debounceTimer}
    /\ patientWS' = close(patientWS)
    /\ dashboardWS' = close(dashboardWS)

\* the page is unmounted
PageUnmount ==
    /\ pageMounted
    /\ patientId # ""
    /\ PageCleanups
    /\ lastStep' = Step("pageUnmount", patientId)
    /\ UNCHANGED <<submitVars, unitVars, now, patientId, currentStatus, activityTimerRef, emitted,
                   lastInput, nInputs, dashVars, sentOwn, sentDash,
                   debounceTimer, formValues, nForms, lastDebounced, lastError,
                   nErrors>>

PatientNext ==
    \/ MountEffects
    \/ Keystroke
    \/ Focus
    \/ PageTimerFires
    \/ PageTick
    \/ PageUnmount

PatientSpec == PatientInit /\ [][PatientNext]_vars

(***************************************************************************)
(* The page between its first render and its effects.  The handlers are    *)
(* attached when the first render commits; setPatientId runs in a passive  *)
(* effect after that commit and the mount effect after the render that     *)
(* follows, so a key or focus event can be dispatched while patientId is   *)
(* still "".  sendStatusUpdate then returns at its first line, but the     *)
(* handler arms its timers all the same.                                   *)
(***************************************************************************)
\* onKeyDown before the mount effect has run
EarlyKeystroke ==
    /\ pageMounted
    /\ patientId = ""
    /\ nInputs < MaxInputs
    /\ PageCommit(handleKeyboardInput(PageHere, now))
    /\ lastInput' = [kind |-> "key", at |-> now, status |-> currentStatus,
                     keyAt |-> now]
    /\ nInputs' = nInputs + 1
    /\ lastStep' = Step("earlyKey", patientId)
    /\ UNCHANGED <<submitVars, unitVars, now, patientId, pageMounted, dashVars, formVars>>

\* onInputFocus before the mount effect has run
EarlyFocus ==
    /\ pageMounted
    /\ patientId = ""
    /\ nInputs < MaxInputs
    /\ PageCommit(handleInputFocus(PageHere, now))
    /\ lastInput' = [kind |-> "focus", at |-> now, status |-> currentStatus,
                     keyAt |-> lastInput.keyAt]
    /\ nInputs' = nInputs + 1
    /\ lastStep' = Step("earlyFocus", patientId)
    /\ UNCHANGED <<submitVars, unitVars, now, patientId, pageMounted, dashVars, formVars>>

RaceNext ==
    \/ PatientNext
    \/ EarlyKeystroke
    \/ EarlyFocus

RaceSpec == PatientInit /\ [][RaceNext]_vars

(***************************************************************************)
(* The sockets of the patient page, the form and the debounced summary.    *)
(* variant "timers" is the page of page.tsx 1-278 on the hooks of          *)
(* web-socket.ts 65-187, variant "removed" the page of page.tsx 279-625 on *)
(* the hooks of part_004 61-187, in a session without saved form data.     *)
(***************************************************************************)
\* values the form takes after a change
FormContents ==
    { [required |-> 1, optional |-> 0],
      [required |-> 2, optional |-> 1],
      [required |-> RequiredFields, optional |-> 0] }

\* Math.round((filledCount / requiredFields.length) * 100)
calculateProgress(values) ==
    (200 * values.required + RequiredFields) \div (2 * RequiredFields)

\* Object.values(values).filter(Boolean).length
filledCount(values) == values.required + values.optional

\* the debounce of useDashboardWebSocket: the ref and the pending timeouts
Debounce(ref, to) == [ref |-> ref, to |-> to]

\* sendDebounced arming its timer without clearing the pending one
sendDebounced_KeepsTimer(db, message, t) ==
    LET used == {x.id : x \in db.to} \cup {db.ref}
        id == 1 + (CHOOSE m \in used : \A i \in used : i <= m)
    IN  Debounce(id, db.to \cup {[id |-> id, msg |-> message,
                                  due |-> t + DASHBOARD_SUMMARY_DEBOUNCE]})

sendDebounced(db, message, t) ==
    LET to1 == IF db.ref # 0 THEN {x \in db.to : x.id # db.ref} ELSE db.to
        used == {x.id : x \in db.to} \cup {db.ref}
        id == 1 + (CHOOSE m \in used : \A i \in used : i <= m)
    IN  Debounce(id, to1 \cup {[id |-> id, msg |-> message,
                                due |-> t + DASHBOARD_SUMMARY_DEBOUNCE]})

\* sendDashboardSummary: the message handed to sendDebounced
SummaryMessage(values, t) ==
    Msg("summary", patientId, t, Summary(calculateProgress(values), FALSE, 0), "")

\* sendFullSnapshot: the message handed to patientWS.send
SnapshotMessage(values, t) == Msg("formSnapshot", patientId, t, values, "")

\* the callback of form.watch sends the full snapshot: always in the later
\* page, from FULL_SNAPSHOT_THRESHOLD filled fields on in the first one
SendsSnapshot(values) ==
    variant = "removed" \/ filledCount(values) >= FULL_SNAPSHOT_THRESHOLD

\* the callback of form.watch
FormChange ==
    /\ pageMounted
    /\ patientId # ""
    /\ nForms < MaxForms
    /\ \E values \in FormContents :
          /\ formValues' = values
          /\ LET db == sendDebounced(Debounce(debounceTimer, dashTimeouts),
                                     SummaryMessage(values, now), now)
             IN  /\ debounceTimer' = db.ref
                 /\ dashTimeouts' = db.to
          /\ lastDebounced' = SummaryMessage(values, now)
          /\ sentOwn' = IF SendsSnapshot(values)
                        THEN send(patientWS, sentOwn, SnapshotMessage(values, now))
                        ELSE sentOwn
    /\ nForms' = nForms + 1
    /\ lastStep' = Step("formChange", patientId)
    /\ UNCHANGED <<submitVars, unitVars, now, pageVars, dashVars, patientWS, dashboardWS, sentDash,
                   lastError, nErrors>>

\* the callback of the debounce timer: sendImmediate, then the ref is reset
DebounceFires ==
    /\ \E x \in dashTimeouts :
          /\ x.due <= now
          /\ sentDash' = send(dashboardWS, sentDash, x.msg)
          /\ dashTimeouts' = dashTimeouts \ {x}
    /\ debounceTimer' = 0
    /\ lastStep' = Step("debounce", patientId)
    /\ UNCHANGED <<submitVars, unitVars, now, pageVars, dashVars, patientWS, dashboardWS, sentOwn,
                   formValues, nForms, lastDebounced, lastError, nErrors>>

\* ws.onopen of the own-room socket: the page passes no onOpen
OwnOpen ==
    /\ patientWS = "connecting"
    /\ patientWS' = "open"
    /\ lastStep' = Step("open", "own")
    /\ UNCHANGED <<submitVars, unitVars, now, pageVars, dashVars, dashboardWS, sentOwn, sentDash,
                   debounceTimer, dashTimeouts, formValues, nForms,
                   lastDebounced, lastError, nErrors>>

\* handleOpen announcing the page with a state of its own
DashOpen_SendsConnected ==
    /\ dashboardWS = "connecting"
    /\ dashboardWS' = "open"
    /\ sentDash' = Append(sentDash,
                          Msg("status", patientId, now, UndefinedSummary, "connected"))
    /\ lastStep' = Step("open", "dashboard")
    /\ UNCHANGED <<submitVars, unitVars, now, pageVars, dashVars, patientWS, sentOwn,
                   debounceTimer, dashTimeouts, formValues, nForms,
                   lastDebounced, lastError, nErrors>>

\* ws.onopen of the dashboard socket: handleOpen sends "online" on it
DashOpen ==
    /\ dashboardWS = "connecting"
    /\ dashboardWS' = "open"
    /\ sentDash' = Append(sentDash,
                          Msg("status", patientId, now, UndefinedSummary, "online"))
    /\ lastStep' = Step("open", "dashboard")
    /\ UNCHANGED <<submitVars, unitVars, now, pageVars, dashVars, patientWS, sentOwn,
                   debounceTimer, dashTimeouts, formValues, nForms,
                   lastDebounced, lastError, nErrors>>

\* the sockets of the page
PageSockets == {"own", "dashboard"}

ReadyState(sock) == IF sock = "own" THEN patientWS ELSE dashboardWS

\* the socket `sock` gets the ready state rs
SetReadyState(sock, rs) ==
    /\ patientWS' = IF sock = "own" THEN rs ELSE patientWS
    /\ dashboardWS' = IF sock = "dashboard" THEN rs ELSE dashboardWS

\* ws.onclose after the closing handshake that close() began; the page
\* passes no onClose
TransportClose ==
    /\ \E sock \in PageSockets :
          /\ ReadyState(sock) = "closing"
          /\ SetReadyState(sock, "closed")
          /\ lastStep' = Step("close", sock)
    /\ UNCHANGED <<submitVars, unitVars, now, pageVars, dashVars, sentOwn, sentDash,
                   debounceTimer, dashTimeouts, formValues, nForms,
                   lastDebounced, lastError, nErrors>>

\* ws.onclose without an error event: the server closed the connection
ServerClose ==
    /\ nErrors < MaxErrors
    /\ \E sock \in PageSockets :
          /\ ReadyState(sock) \in {"connecting", "open"}
          /\ SetReadyState(sock, "closed")
          /\ lastStep' = Step("serverClose", sock)
    /\ nErrors' = nErrors + 1
    /\ UNCHANGED <<submitVars, unitVars, now, pageVars, dashVars, sentOwn, sentDash,
                   debounceTimer, dashTimeouts, formValues, nForms,
                   lastDebounced, lastError>>

\* ws.onerror forwards the event to onError: always in web-socket.ts, in
\* part_004 only before the cleanup ran and while the socket is neither
\* closing nor closed
onerror(seen, unmounting) ==
    IF variant = "removed"
    THEN ~unmounting /\ seen \notin {"closing", "closed"}
    ELSE TRUE

\* the connection fails: the error event is dispatched with the ready state
\* the socket had or with CLOSED, and the socket ends closed
TransportError ==
    /\ nErrors < MaxErrors
    /\ \E sock \in PageSockets :
          /\ ReadyState(sock) \in {"connecting", "open", "closing"}
          /\ \E seen \in {ReadyState(sock), "closed"} :
                lastError' = [socket |-> sock, seen |-> seen,
                              forwarded |-> onerror(seen, ~pageMounted)]
          /\ SetReadyState(sock, "closed")
          /\ lastStep' = Step("error", sock)
    /\ nErrors' = nErrors + 1
    /\ UNCHANGED <<submitVars, unitVars, now, pageVars, dashVars, sentOwn, sentDash,
                   debounceTimer, dashTimeouts, formValues, nForms,
                   lastDebounced>>

\* the page right after its first render, its sockets and its form
FirstRender ==
    /\ DashboardInit
    /\ NoSubmit
    /\ NoUnits
    /\ nSockets = 0
    /\ now = StartTime
    /\ patientId = ""
    /\ currentStatus = "online"
    /\ activityTimerRef = 0
    /\ idleTimerRef = 0
    /\ pageTimeouts = {}
    /\ pageMounted = TRUE
    /\ emitted = << >>
    /\ lastInput = NoInput
    /\ patientWS = "none"
    /\ dashboardWS = "none"
    /\ sentOwn = << >>
    /\ sentDash = << >>
    /\ debounceTimer = 0
    /\ dashTimeouts = {}
    /\ formValues = NoForm
    /\ lastDebounced = NoMessage
    /\ lastError = NoError

\* the first render, with ChanInputs input events left
ChannelInit ==
    /\ FirstRender
    /\ nInputs = MaxInputs - ChanInputs
    /\ nForms = MaxForms
    /\ nErrors = 0
    /\ nSubmits = MaxSubmits

ChannelNext ==
    \/ MountEffects
    \/ Keystroke
    \/ Focus
    \/ PageTimerFires
    \/ PageTick
    \/ PageUnmount
    \/ OwnOpen
    \/ DashOpen
    \/ TransportClose
    \/ ServerClose
    \/ TransportError

ChannelSpec == ChannelInit /\ [][ChannelNext]_vars

\* the first render, with no input event and no transport failure to come
FormInit ==
    /\ FirstRender
    /\ nInputs = MaxInputs
    /\ nForms = 0
    /\ nErrors = MaxErrors
    /\ nSubmits = MaxSubmits

FormNext ==
    \/ MountEffects
    \/ PageTimerFires
    \/ PageTick
    \/ PageUnmount
    \/ FormChange
    \/ DebounceFires
    \/ OwnOpen
    \/ DashOpen
    \/ TransportClose

FormSpec == FormInit /\ [][FormNext]_vars

(***************************************************************************)
(* The submission of the form.  handleSubmit calls onSubmit only for       *)
(* values that pass the schema, so every required field is filled.         *)
(***************************************************************************)
\* the message onSubmit sends on the own-room socket: the values, in the
\* later page with the progress
SubmitMessage(values, t) ==
    Msg("submit", patientId, t,
        IF variant = "removed"
        THEN [required |-> values.required, optional |-> values.optional,
              progress |-> calculateProgress(values)]
        ELSE values,
        "")

\* the summary onSubmit sends on the dashboard socket
SubmittedSummary(t) == Msg("summary", patientId, t, Summary(100, TRUE, 0), "")

\* onSubmit: the two sends; the later page then waits SUBMIT_WAIT and leaves
PageSubmit ==
    /\ pageMounted
    /\ patientId # ""
    /\ nSubmits < MaxSubmits
    /\ formValues.required = RequiredFields
    /\ ~isSubmitting
    /\ sentOwn' = send(patientWS, sentOwn, SubmitMessage(formValues, now))
    /\ sentDash' = send(dashboardWS, sentDash, SubmittedSummary(now))
    /\ IF variant = "removed"
       THEN isSubmitting' = TRUE /\ redirectAt' = now + SUBMIT_WAIT
       ELSE UNCHANGED <<isSubmitting, redirectAt>>
    /\ nSubmits' = nSubmits + 1
    /\ lastStep' = Step("submit", patientId)
    /\ UNCHANGED <<now, pageVars, dashVars, unitVars, patientWS, dashboardWS,
                   debounceTimer, dashTimeouts, formValues, nForms,
                   lastDebounced, lastError, nErrors>>

\* the wait of onSubmit is over: router.push("/thank-you") unmounts the page
Redirect ==
    /\ redirectAt # 0
    /\ redirectAt <= now
    /\ redirectAt' = 0
    /\ IF pageMounted
       THEN PageCleanups
       ELSE UNCHANGED <<pageMounted, pageTimeouts, idleTimerRef, dashTimeouts,
                        patientWS, dashboardWS>>
    /\ lastStep' = Step("redirect", patientId)
    /\ UNCHANGED <<now, patientId, currentStatus, activityTimerRef, emitted,
                   lastInput, nInputs, dashVars, unitVars, sentOwn, sentDash,
                   debounceTimer, formValues, nForms, lastDebounced, lastError,
                   nErrors, isSubmitting, nSubmits>>

\* the first render, with no input event and no transport failure to come
\* and up to MaxSubmits submissions
SubmitInit ==
    /\ FirstRender
    /\ nInputs = MaxInputs
    /\ nForms = 0
    /\ nErrors = MaxErrors
    /\ nSubmits = 0

SubmitNext ==
    \/ MountEffects
    \/ PageTimerFires
    \/ PageTick
    \/ FormChange
    \/ DebounceFires
    \/ OwnOpen
    \/ DashOpen
    \/ PageSubmit
    \/ Redirect

SubmitSpec == SubmitInit /\ [][SubmitNext]_vars

(***************************************************************************)
(* The staff live view of one patient (StaffPatientView).  variant         *)
(* "timers" is the view of lines 1-135, variant "removed" the view of      *)
(* lines 136-300, which leaves for the dashboard after a submit message.   *)
(***************************************************************************)
\* the delay of the later view's redirect after a submit message
VIEW_REDIRECT_DELAY == 1000

\* the state handleMessage works on
View(status, form, lastUpdate, redirects) ==
    [status |-> status, form |-> form, lastUpdate |-> lastUpdate,
     redirects |-> redirects]

ViewHere == View(viewStatus, viewForm, viewLastUpdate, viewRedirects)

\* the form values a snapshot or a submit message carries
CompleteForm == [required |-> RequiredFields, optional |-> 0]

\* messages that arrive on the patient's room: snapshots, submit messages and
\* connected messages with and without payload, status messages with the
\* statuses of PatientStatus, with an unrecognised one and without state
ViewFrames(t) ==
    { Msg(type, "p1", t, payload, "") :
         type \in {"formSnapshot", "submit", "connected"},
         payload \in {UndefinedSummary, CompleteForm, [required |-> 1, optional |-> 0]} }
    \cup { Msg("status", "p1", t, UndefinedSummary, state) :
              state \in validStatuses \cup {"away", ""} }
    \cup MalformedFrames

\* handleMessage of the view
handleMessage(view, data, t) ==
    LET parsed == JSONParse(data)
    IN  IF parsed.threw
        THEN view
        ELSE LET msg == parsed.msg
             IN  IF msg.type = "formSnapshot" /\ msg.payload # UndefinedSummary
                 THEN [view EXCEPT !.form = msg.payload, !.lastUpdate = t]
                 ELSE IF msg.type = "status" /\ msg.state # ""
                 THEN [view EXCEPT !.status = msg.state]
                 ELSE IF /\ variant = "removed"
                         /\ msg.type = "submit"
                         /\ msg.payload # UndefinedSummary
                 THEN [view EXCEPT !.redirects = @ \cup {t + VIEW_REDIRECT_DELAY}]
                 ELSE view

\* getStatusStyle finds an entry for the status, so that the render can read
\* statusStyle.bg
StyleFound(status) == status \in {"updating", "online", "idle"}

\* a message arrives on the view's socket; the render that follows throws when
\* getStatusStyle returns undefined
ViewMessage ==
    /\ viewPhase = "mounted"
    /\ nMsgs < MaxMsgs
    /\ \E data \in ViewFrames(now) :
          LET view == handleMessage(ViewHere, data, now)
          IN  /\ viewStatus' = view.status
              /\ viewForm' = view.form
              /\ viewLastUpdate' = view.lastUpdate
              /\ viewRedirects' = view.redirects
              /\ viewPhase' = IF StyleFound(view.status) THEN "mounted" ELSE "crashed"
              /\ lastStep' = Step(IF data \in MalformedFrames THEN "viewMalformed"
                                  ELSE data.type, "p1")
    /\ nMsgs' = nMsgs + 1
    /\ UNCHANGED <<variant, now, mounted, patients, removalTimersRef, timeouts,
                   wire, lastFor, uncaught, liveVars, pageVars, chanVars,
                   submitVars, hookVars, codecVars>>

\* the redirect timer fires: router.push("/staff")
ViewRedirect ==
    /\ \E d \in viewRedirects :
          /\ d <= now
          /\ viewRedirects' = viewRedirects \ {d}
    /\ viewPhase' = IF viewPhase = "mounted" THEN "left" ELSE viewPhase
    /\ lastStep' = Step("viewRedirect", "p1")
    /\ UNCHANGED <<now, dashVars, pageVars, chanVars, submitVars, hookVars,
                   codecVars, viewStatus, viewForm, viewLastUpdate>>

\* the clock advances, but never past the due time of a redirect timer
ViewTick ==
    /\ now < StartTime + MaxTicks * TickMs
    /\ \A d \in viewRedirects : d > now
    /\ now' = IF \E d \in viewRedirects : d < now + TickMs
              THEN CHOOSE d \in viewRedirects : \A e \in viewRedirects : d <= e
              ELSE now + TickMs
    /\ lastStep' = Step("tick", "")
    /\ UNCHANGED <<dashVars, pageVars, chanVars, submitVars, unitVars>>

\* the view right after its first render
ViewInit ==
    /\ DashboardInit
    /\ nSockets = 0
    /\ now = StartTime
    /\ NoPage
    /\ NoHook
    /\ NoCodec
    /\ viewStatus = "online"
    /\ viewForm = NoForm
    /\ viewLastUpdate = StartTime
    /\ viewRedirects = {}
    /\ viewPhase = "mounted"

ViewNext ==
    \/ ViewMessage
    \/ ViewRedirect
    \/ ViewTick

ViewSpec == ViewInit /\ [][ViewNext]_vars

(***************************************************************************)
(* One instance of useWebSocket: the effect that opens the socket, its     *)
(* cleanup, and the renders that change room, clientId or a callback.      *)
(* variant "timers" is the hook of web-socket.ts 65-122, variant "removed" *)
(* the hook of part_004 61-124.                                            *)
(***************************************************************************)
\* the props that are tried: the dashboard room or the patient's own room, an
\* empty or a set clientId, and two identities of the callbacks
HookProps ==
    [room : {"dashboard", "p1"}, clientId : {"", "p1"}, callbacks : {1, 2}]

\* a socket made by connectWS(room, clientId) and what the hook did to it
HookSocket(room, clientId, readyState, closeCalled) ==
    [room |-> room, clientId |-> clientId, readyState |-> readyState,
     closeCalled |-> closeCalled]

\* the state the effect works on: the sockets and the effect's own `ws`
Hook(sockets, ws) == [sockets |-> sockets, ws |-> ws]

HookHere == Hook(hookSockets, hookWs)

\* wsRef.current: the socket of the last effect that opened one, 0 for null
wsRef == Len(hookSockets)

\* the effect's cleanup leaving the socket as it is
HookCleanup_NoClose(hk) == hk

\* the cleanup the effect returned: ws.close(), in the later hook only on a
\* socket that is open or connecting; an effect that returned at its first
\* line has no cleanup
HookCleanup(hk) ==
    IF hk.ws = 0
    THEN hk
    ELSE LET s == hk.sockets[hk.ws]
         IN  IF variant = "removed" /\ s.readyState \notin {"open", "connecting"}
             THEN hk
             ELSE [hk EXCEPT !.sockets[hk.ws] =
                      HookSocket(s.room, s.clientId, close(s.readyState), TRUE)]

\* the effect: nothing without a clientId, else a new socket
HookEffect(hk, props) ==
    IF props.clientId = ""
    THEN Hook(hk.sockets, 0)
    ELSE Hook(Append(hk.sockets,
                     HookSocket(props.room, props.clientId, "connecting", FALSE)),
              Len(hk.sockets) + 1)

\* the first render and its effect
HookMount ==
    /\ ~hookMounted
    /\ hookDeps = NoDeps
    /\ \E props \in HookProps :
          /\ hookDeps' = props
          /\ LET hk == HookEffect(HookHere, props)
             IN  hookSockets' = hk.sockets /\ hookWs' = hk.ws
          /\ lastStep' = Step("hookMount", props.clientId)
    /\ hookMounted' = TRUE
    /\ UNCHANGED <<now, dashVars, pageVars, chanVars, submitVars, viewVars,
                   codecVars, nRenders>>

\* a render with another room, clientId or callback: the cleanup of the
\* effect in force, then the effect
HookRender ==
    /\ hookMounted
    /\ nRenders < MaxRenders
    /\ \E props \in HookProps :
          /\ props # hookDeps
          /\ hookDeps' = props
          /\ LET hk == HookEffect(HookCleanup(HookHere), props)
             IN  hookSockets' = hk.sockets /\ hookWs' = hk.ws
          /\ lastStep' = Step("hookRender", props.clientId)
    /\ nRenders' = nRenders + 1
    /\ UNCHANGED <<now, dashVars, pageVars, chanVars, submitVars, viewVars,
                   codecVars, hookMounted>>

\* the connection of a socket is established
HookOpen ==
    /\ \E k \in DOMAIN hookSockets :
          /\ hookSockets[k].readyState = "connecting"
          /\ hookSockets' = [hookSockets EXCEPT ![k].readyState = "open"]
          /\ lastStep' = Step("hookOpen", hookSockets[k].clientId)
    /\ UNCHANGED <<now, dashVars, pageVars, chanVars, submitVars, viewVars,
                   codecVars, hookDeps, hookWs, hookMounted, nRenders>>

\* a socket is closed: the close handshake ends, the server closes it or the
\* connection fails
HookClosed ==
    /\ \E k \in DOMAIN hookSockets :
          /\ hookSockets[k].readyState # "closed"
          /\ hookSockets' = [hookSockets EXCEPT ![k].readyState = "closed"]
          /\ lastStep' = Step("hookClosed", hookSockets[k].clientId)
    /\ UNCHANGED <<now, dashVars, pageVars, chanVars, submitVars, viewVars,
                   codecVars, hookDeps, hookWs, hookMounted, nRenders>>

\* the component is unmounted: the cleanup of the effect in force
HookUnmount ==
    /\ hookMounted
    /\ LET hk == HookCleanup(HookHere)
       IN  hookSockets' = hk.sockets
    /\ hookWs' = 0
    /\ hookMounted' = FALSE
    /\ lastStep' = Step("hookUnmount", hookDeps.clientId)
    /\ UNCHANGED <<now, dashVars, pageVars, chanVars, submitVars, viewVars,
                   codecVars, hookDeps, nRenders>>

\* no component has called the hook yet
HookInit ==
    /\ DashboardInit
    /\ nSockets = 0
    /\ now = StartTime
    /\ NoPage
    /\ NoUnits

HookNext ==
    \/ HookMount
    \/ HookRender
    \/ HookOpen
    \/ HookClosed
    \/ HookUnmount

HookSpec == HookInit /\ [][HookNext]_vars

(***************************************************************************)
(* One call of createWSMessage and JSON.parse of the text it returns.      *)
(***************************************************************************)
\* message types the callers pass
CodecTypes == {"status", "summary", "formSnapshot", "submit"}

\* payloads the callers pass: none, the summary of sendDashboardSummary, the
\* summary of onSubmit, form values; and null and {}
CodecPayloads ==
    { Undefined,
      Null,
      Obj(<< >>),
      Obj(<< <<"firstName", Null>>, <<"lastName", Str("Doe")>>,
             <<"progress", Num(11)>> >>),
      Obj(<< <<"firstName", Str("Jo")>>, <<"lastName", Str("Doe")>>,
             <<"progress", Num(100)>>, <<"submitted", Bool(TRUE)>> >>),
      Obj(<< <<"firstName", Str("Jo")>>, <<"middleName", Str("")>>,
             <<"lastName", Str("")>> >>) }

\* states the callers pass: none or a status; and the empty string
CodecStates == {Undefined} \cup {Str(s) : s \in ActiveStatuses \cup {""}}

CodecCalls ==
    [type : CodecTypes, clientId : ClientIds, payload : CodecPayloads,
     state : CodecStates]

CodecInit ==
    /\ DashboardInit
    /\ nSockets = 0
    /\ now = StartTime
    /\ NoPage
    /\ NoView
    /\ NoHook
    /\ callArgs \in CodecCalls
    /\ calledAt = 0
    /\ wireText = << >>
    /\ decoded = NotDecoded

\* createWSMessage(type, clientId, payload, state)
Encode ==
    /\ calledAt = 0
    /\ wireText' = createWSMessage(callArgs.type, callArgs.clientId,
                                   callArgs.payload, callArgs.state, now)
    /\ calledAt' = now
    /\ lastStep' = Step("encode", callArgs.clientId)
    /\ UNCHANGED <<now, dashVars, pageVars, chanVars, submitVars, viewVars,
                   hookVars, callArgs, decoded>>

\* JSON.parse(event.data) at the receiver
Decode ==
    /\ calledAt # 0
    /\ decoded = NotDecoded
    /\ decoded' = ParseJSON(wireText)
    /\ lastStep' = Step("decode", callArgs.clientId)
    /\ UNCHANGED <<now, dashVars, pageVars, chanVars, submitVars, viewVars,
                   hookVars, callArgs, calledAt, wireText>>

\* the clock advances
CodecTick ==
    /\ now < StartTime + MaxTicks * TickMs
    /\ now' = now + TickMs
    /\ lastStep' = Step("tick", "")
    /\ UNCHANGED <<dashVars, pageVars, chanVars, submitVars, viewVars,
                   hookVars, codecVars>>

CodecNext ==
    \/ Encode
    \/ Decode
    \/ CodecTick

CodecSpec == CodecInit /\ [][CodecNext]_vars

TypeOK ==
    /\ variant \in Variants
    /\ now \in Nat
    /\ mounted \in BOOLEAN
    /\ DOMAIN patients \subseteq ClientIds
    /\ DOMAIN removalTimersRef \subseteq ClientIds
    /\ nMsgs \in 0..MaxMsgs

(***************************************************************************)
(* Properties of the dashboard reconciler and its removal scheduler.       *)
(***************************************************************************)
\* the removal timer recorded for c is pending and due at d
TimerPendingAt(c, d) ==
    /\ c \in DOMAIN removalTimersRef
    /\ \E x \in timeouts :
          x.id = removalTimersRef[c] /\ x.clientId = c /\ x.due = d

NoTimerFor(c) ==
    /\ c \notin DOMAIN removalTimersRef
    /\ \A x \in timeouts : x.clientId # c

\* C1: after initialState is processed, a listed participant that is already
\* submitted (with submittedAt) or disconnected (with disconnectedAt) since
\* REMOVAL_DELAY ms or more is absent from the map.
C1_StaleInitialAbsent ==
    \A c \in ClientIds :
        ( /\ variant = "timers"
          /\ lastStep.kind = "initialState"
          /\ lastFor[c].listed
          /\ lastFor[c].ts # 0
          /\ now - lastFor[c].ts >= REMOVAL_DELAY )
        => c \notin DOMAIN patients

\* C2: an entry whose status is online, updating or idle leaves the map only
\* by a patientRemoved event or by the replacement done by initialState; no
\* removal timer (and no other step) deletes it.
C2_ActiveNeverEvicted ==
    [][ \A c \in ClientIds :
          ( /\ c \in DOMAIN patients
            /\ patients[c].status \in ActiveStatuses
            /\ c \notin DOMAIN patients' )
          => lastStep'.kind \in {"patientRemoved", "initialState"} ]_vars

\* C3: an entry set to disconnected by patientDisconnected keeps that status
\* when a status event with an older timestamp than the disconnect arrives.
C3_StaleStatusIgnored ==
    [][ \A c \in ClientIds :
          ( /\ c \in DOMAIN patients
            /\ patients[c].status = "disconnected"
            /\ lastFor[c].type = "patientDisconnected"
            /\ lastStep'.kind = "status"
            /\ lastStep'.clientId = c
            /\ lastFor'[c].ts < OrNow(lastFor[c].ts, lastFor[c].at) )
          => ( c \in DOMAIN patients' /\ patients'[c].status = "disconnected" ) ]_vars

\* the last frame handled for c is the one that made its entry disconnected
\* or submitted
MadeTerminal(c) ==
    /\ c \in DOMAIN patients
    /\ \/ /\ lastFor[c].type \in {"patientDisconnected", "status"}
          /\ patients[c].status = "disconnected"
       \/ /\ lastFor[c].type = "summary"
          /\ lastFor[c].submitted
       \/ /\ lastFor[c].type = "initialState"
          /\ lastFor[c].listed
          /\ (patients[c].status = "disconnected" \/ patients[c].summary.submitted)

\* C4: an entry that became disconnected or submitted, with no later frame
\* for its clientId, is gone once the grace window after that frame is over.
C4_TerminalRemovedInGrace ==
    \A c \in ClientIds :
        ( variant = "timers" /\ mounted /\ MadeTerminal(c) )
        => now <= lastFor[c].at + REMOVAL_DELAY

C6_ActivityCancelsRemoval ==
    \A c \in ClientIds :
        ( /\ \/ lastFor[c].type = "patientConnected"
             \/ lastFor[c].type = "summary" /\ ~lastFor[c].submitted
          /\ lastFor[c].pendingDue # 0 )
        => ( c \in DOMAIN patients /\ NoTimerFor(c) )

\* the due time of a cancelled timer has passed and the entry is still there
C6_Witness ==
    \E c \in ClientIds :
        /\ lastFor[c].type \in {"patientConnected", "summary"}
        /\ ~lastFor[c].submitted
        /\ lastFor[c].pendingDue # 0
        /\ lastFor[c].at < lastFor[c].pendingDue
        /\ now >= lastFor[c].pendingDue
        /\ c \in DOMAIN patients

\* C7: at most one removal timer is pending for a clientId, and the ref
\* records exactly the pending timers.
C7_OneTimerPerClient ==
    /\ \A x, y \in timeouts : x.clientId = y.clientId => x = y
    /\ \A x \in timeouts :
          x.clientId \in DOMAIN removalTimersRef /\ removalTimersRef[x.clientId] = x.id
    /\ \A c \in DOMAIN removalTimersRef :
          \E x \in timeouts : x.id = removalTimersRef[c] /\ x.clientId = c

\* a removal was scheduled while a timer was pending, and one timer is left
C7_Witness ==
    \E c \in ClientIds :
        /\ lastFor[c].type = "patientDisconnected"
        /\ lastFor[c].pendingDue # 0
        /\ lastStep = Step("patientDisconnected", c)
        /\ c \in DOMAIN removalTimersRef
        /\ Cardinality({x \in timeouts : x.clientId = c}) = 1

\* C8: the summary that onSubmit sent at time T marks the entry submitted,
\* and the entry is removed REMOVAL_DELAY after T.
C8_SubmitRemovedAfterGrace ==
    \A c \in ClientIds :
        ( /\ variant = "timers"
          /\ mounted
          /\ lastFor[c].type = "summary"
          /\ lastFor[c].relayed )
        => /\ c \in DOMAIN patients => patients[c].summary.submitted
           /\ now >= lastFor[c].ts + REMOVAL_DELAY
                 => ( c \notin DOMAIN patients
                      \/ TimerPendingAt(c, lastFor[c].ts + REMOVAL_DELAY) )

\* C9: right after patientRemoved for a clientId, that clientId has no entry
\* and no pending removal timer.
C9_RemovedEvicts ==
    \A c \in ClientIds :
        lastStep = Step("patientRemoved", c)
        => ( c \notin DOMAIN patients /\ NoTimerFor(c) )

SummaryRemovesAtOnce(payload, t) ==
    /\ variant = "timers"
    /\ SubmittedWithTime(payload)
    /\ t - payload.submittedAt >= REMOVAL_DELAY

\* the entries of every clientId but c are as they were
OthersUnchanged(c) ==
    \A d \in ClientIds \ {c} :
        /\ d \in DOMAIN patients' <=> d \in DOMAIN patients
        /\ d \in DOMAIN patients => patients'[d] = patients[d]

\* C11: a summary frame for a clientId writes the payload as the entry's
\* summary, keeps the entry's status and isLiveConnected (status "online" for
\* an unknown clientId), sets lastActivity to the current time and leaves the
\* entries of the other clientIds as they were.  (The entry is in the map
\* unless the removal scheduler deleted it within the same handler.)
C11_SummaryFrameEffect ==
    [][ \A c \in ClientIds :
          lastStep' = Step("summary", c)
          => /\ c \in DOMAIN patients'
                  <=> ~SummaryRemovesAtOnce(lastFor'[c].payload, now)
             /\ c \in DOMAIN patients'
                  => /\ patients'[c].summary = lastFor'[c].payload
                     /\ patients'[c].status = PrevStatus(patients, c)
                     /\ patients'[c].isLiveConnected = PrevLive(patients, c)
                     /\ patients'[c].lastActivity = now
             /\ OthersUnchanged(c) ]_vars

\* a summary arrived for an idle entry listed by initialState, next to another
\* entry: the payload is in, the status and isLiveConnected are kept
C11_Witness ==
    \E c \in ClientIds :
        /\ lastStep = Step("summary", c)
        /\ c \in DOMAIN patients
        /\ patients[c].summary = lastFor[c].payload
        /\ patients[c].summary.kind = "data"
        /\ patients[c].status = "idle"
        /\ patients[c].isLiveConnected = "false"
        /\ patients[c].lastActivity = now
        /\ \E d \in ClientIds \ {c} : d \in DOMAIN patients

\* C12: a status frame whose state is missing or is not one of online,
\* updating, idle, disconnected changes neither the map nor the removal
\* timers, and no exception leaves the handler.
C12_InvalidStatusDropped ==
    [][ lastStep'.kind = "invalidStatus"
        => /\ patients' = patients
           /\ removalTimersRef' = removalTimersRef
           /\ timeouts' = timeouts
           /\ ~uncaught' ]_vars

\* an invalid status arrived for an entry that has a removal timer pending
C12_Witness ==
    \E c \in ClientIds :
        /\ lastStep = Step("invalidStatus", c)
        /\ c \in DOMAIN patients
        /\ PendingDue(c) # 0

\* C13: a patientConnected frame for a clientId sets the entry's status to
\* online whatever it was, keeps its summary (the empty summary when the
\* clientId was unknown or held no summary) and sets lastActivity to the
\* current time.
C13_ConnectedEffect ==
    [][ \A c \in ClientIds :
          lastStep' = Step("patientConnected", c)
          => /\ c \in DOMAIN patients'
             /\ patients'[c].status = "online"
             /\ patients'[c].summary =
                    IF c \in DOMAIN patients /\ patients[c].summary.kind # "undefined"
                    THEN patients[c].summary
                    ELSE EmptySummary
             /\ patients'[c].lastActivity = now ]_vars

\* patientConnected arrived for an entry that was waiting for its removal
C13_Witness ==
    \E c \in ClientIds :
        /\ lastStep = Step("patientConnected", c)
        /\ lastFor[c].pendingDue # 0
        /\ c \in DOMAIN patients
        /\ patients[c].status = "online"
        /\ patients[c].lastActivity = now

\* C14: a patientDisconnected frame for a known clientId sets the entry's
\* status to disconnected and leaves its summary and its lastActivity as they
\* were.  (The entry is in the map unless the removal scheduler deleted it
\* within the same handler.)
C14_DisconnectedEffect ==
    [][ \A c \in ClientIds :
          ( lastStep' = Step("patientDisconnected", c) /\ c \in DOMAIN patients )
          => /\ c \in DOMAIN patients'
                  <=> ~( /\ variant = "timers"
                         /\ now - OrNow(lastFor'[c].ts, now) >= REMOVAL_DELAY )
             /\ c \in DOMAIN patients'
                  => /\ patients'[c].status = "disconnected"
                     /\ patients'[c].summary = patients[c].summary
                     /\ patients'[c].lastActivity = patients[c].lastActivity ]_vars

\* patientDisconnected arrived after the clock moved on from the entry's
\* lastActivity
C14_Witness ==
    \E c \in ClientIds :
        /\ lastStep = Step("patientDisconnected", c)
        /\ c \in DOMAIN patients
        /\ patients[c].status = "disconnected"
        /\ patients[c].summary.kind = "data"
        /\ patients[c].lastActivity < now

\* frames addressed to clientId c that are tried at time t
AddressedEvents(c, t) ==
    { Msg("summary", c, ts, payload, "") :
          ts \in ArrivalTimestamps(t), payload \in SummaryPayloads(t) }
    \cup { Msg("status", c, ts, UndefinedSummary, state) :
              ts \in StatusTimestamps(t), state \in validStatuses }
    \cup { Msg("patientConnected", c, ts, UndefinedSummary, "") :
              ts \in ArrivalTimestamps(t) }
    \cup { Msg("patientDisconnected", c, ts, UndefinedSummary, "") :
              ts \in MsgTimestamps(t) }
    \cup { Msg("patientRemoved", c, 0, UndefinedSummary, "") }

\* summary and status of every clientId
SummaryAndStatus(p) ==
    [c \in DOMAIN p |-> <<p[c].summary, p[c].status>>]

\* two frames for different clientIds give the same summaries and statuses in
\* either order
EventsCommute ==
    nMsgs + 2 <= MaxMsgs
    => \A c, d \in ClientIds :
         c # d
         => \A e \in AddressedEvents(c, now), f \in AddressedEvents(d, now) :
              SummaryAndStatus(Dispatch(Dispatch(Here, e, now), f, now).p)
                = SummaryAndStatus(Dispatch(Dispatch(Here, f, now), e, now).p)

\* C15: frames for different clientIds commute; and when a status frame
\* follows a summary frame for the same clientId (frames of other clientIds
\* in between or not), the entry holds the payload of that summary and the
\* state of that status.
C15_LastSummaryAndStatus ==
    /\ []EventsCommute
    /\ [][ \A c \in ClientIds :
            ( lastFor[c].type = "summary" /\ lastStep' = Step("status", c) )
            => /\ c \in DOMAIN patients'
               /\ patients'[c].summary = lastFor[c].payload
               /\ patients'[c].status = lastFor'[c].state ]_vars

\* C16: a frame that is not JSON, on the dashboard socket or on a live-detail
\* socket, lets no exception leave the handler, changes neither the map nor
\* the removal timers, calls no onUpdate, and leaves the sockets as they are
\* for the frames that follow.
C16_MalformedFrameDropped ==
    [][ lastStep'.kind \in {"malformed", "liveMalformed"}
        => /\ ~uncaught'
           /\ patients' = patients
           /\ removalTimersRef' = removalTimersRef
           /\ timeouts' = timeouts
           /\ nUpdates' = nUpdates
           /\ mounted' = mounted
           /\ socketsRef' = socketsRef
           /\ liveSockets' = liveSockets ]_vars

\* a frame that is not JSON arrived on the dashboard socket while an entry
\* had a removal timer pending and a live-detail socket was open
C16_Witness ==
    /\ lastStep.kind = "malformed"
    /\ timeouts # {}
    /\ DOMAIN socketsRef # {}
    /\ \E c \in ClientIds : c \in DOMAIN patients /\ PendingDue(c) # 0

\* C17: a well-formed message of a type the reconciler has no branch for
\* changes neither the map nor the removal timers, and no exception leaves
\* the handler.
C17_UnknownTypeIgnored ==
    [][ lastStep'.kind = "unknownType"
        => /\ patients' = patients
           /\ removalTimersRef' = removalTimersRef
           /\ timeouts' = timeouts
           /\ ~uncaught' ]_vars

\* a message of an unknown type arrived for an entry with a pending timer
C17_Witness ==
    \E c \in ClientIds :
        /\ lastStep = Step("unknownType", c)
        /\ c \in DOMAIN patients
        /\ PendingDue(c) # 0

\* C18: as long as a clientId has an entry, the entry's lastActivity never
\* decreases (the clock never goes back, and no frame carries a timestamp
\* later than its arrival).
C18_LastActivityMonotone ==
    [][ \A c \in ClientIds :
          ( c \in DOMAIN patients /\ c \in DOMAIN patients' )
          => patients'[c].lastActivity >= patients[c].lastActivity ]_vars

(***************************************************************************)
(* Properties of the presence machine of the patient page.                 *)
(***************************************************************************)
\* the page sent `status` at time t
Sent(status, t) ==
    \E i \in 1..Len(emitted) : emitted[i] = [status |-> status, at |-> t]

\* the page sent `a` at time t and later `b` at time u
SentInOrder(a, t, b, u) ==
    \E i, j \in 1..Len(emitted) :
        /\ i < j
        /\ emitted[i] = [status |-> a, at |-> t]
        /\ emitted[j] = [status |-> b, at |-> u]

\* a keystroke that finds currentStatus "updating" sends nothing, any other
\* keystroke sends "updating" at once
KeystrokeEmission ==
    ( lastStep'.kind = "key" /\ nInputs' = nInputs + 1 )
    => emitted' = IF currentStatus = "updating"
                  THEN emitted
                  ELSE Append(emitted, [status |-> "updating", at |-> now])

\* C19: the page never sends "updating" twice in a row, and a keystroke that
\* arrives while currentStatus is "updating" sends nothing.
C19_NoUpdatingTwice ==
    /\ [](\A i \in 1..(Len(emitted) - 1) :
            ~(emitted[i].status = "updating" /\ emitted[i + 1].status = "updating"))
    /\ [][KeystrokeEmission]_vars

\* "updating" was sent twice, and the last keystroke came while the status
\* was "updating"
C19_Witness ==
    /\ lastInput.kind = "key"
    /\ lastInput.status = "updating"
    /\ \E i, j \in 1..Len(emitted) :
          i < j /\ emitted[i].status = "updating" /\ emitted[j].status = "updating"

\* the timer of `kind` armed by the keystroke at time k: pending, due `delay`
\* after k, named by the ref and the only pending timer of its kind until it
\* is due; fired at its due time and no timer of the kind pending afterwards
ArmedFrom(k, kind, ref, delay) ==
    \/ /\ now <= k + delay
       /\ ~Sent(kind, k + delay)
       /\ \A x \in pageTimeouts :
             x.kind = kind => ( x.id = ref /\ x.due = k + delay )
       /\ \E x \in pageTimeouts : x.kind = kind
    \/ /\ now >= k + delay
       /\ Sent(kind, k + delay)
       /\ \A x \in pageTimeouts : x.kind # kind

\* what follows the keystroke at time k: "online" ONLINE_TIMEOUT after k, then
\* "idle" IDLE_TIMEOUT after k, each from the one timer armed by the keystroke
KeySchedule(k) ==
    /\ ArmedFrom(k, "online", activityTimerRef, ONLINE_TIMEOUT)
    /\ ArmedFrom(k, "idle", idleTimerRef, IDLE_TIMEOUT)
    /\ Sent("idle", k + IDLE_TIMEOUT)
          => SentInOrder("online", k + ONLINE_TIMEOUT, "idle", k + IDLE_TIMEOUT)
    /\ ( Sent("updating", k) /\ Sent("online", k + ONLINE_TIMEOUT) )
          => SentInOrder("updating", k, "online", k + ONLINE_TIMEOUT)

FocusEmission ==
    ( lastStep'.kind = "focus" /\ nInputs' = nInputs + 1 )
    => emitted' = IF currentStatus = "idle"
                  THEN Append(emitted, [status |-> "online", at |-> now])
                  ELSE emitted

\* a focus event removes the idle timer the ref names, leaves the other
\* timers alone and arms one idle timer due IDLE_TIMEOUT after the event
FocusRearm ==
    ( lastStep'.kind = "focus" /\ nInputs' = nInputs + 1 )
    => /\ \A x \in pageTimeouts : x.id = idleTimerRef => x \notin pageTimeouts'
       /\ \A x \in pageTimeouts : x.id # idleTimerRef => x \in pageTimeouts'
       /\ pageTimeouts' \ pageTimeouts =
             {PageTimer(idleTimerRef', "idle", "idle", now + IDLE_TIMEOUT)}
       /\ activityTimerRef' = activityTimerRef

StatesSent(sent) ==
    {sent[i].state : i \in {j \in 1..Len(sent) : sent[j].type = "status"}}

\* C22: every status message the page transmits, on the own-room socket or on
\* the dashboard socket, and every status it hands to sendStatusUpdate, has a
\* state among online, updating and idle; "disconnected" is never sent.
C22_ActiveStatusesOnly ==
    /\ StatesSent(sentOwn) \subseteq ActiveStatuses
    /\ StatesSent(sentDash) \subseteq ActiveStatuses
    /\ \A i \in 1..Len(emitted) : emitted[i].status \in ActiveStatuses

\* both sockets have transmitted "updating" and "idle", and the dashboard
\* socket the "online" of handleOpen as its first message
C22_Witness ==
    /\ {"updating", "idle"} \subseteq StatesSent(sentOwn)
    /\ {"online", "updating", "idle"} \subseteq StatesSent(sentDash)
    /\ sentDash[1].state = "online"
    /\ sentDash[1].timestamp = StartTime

IsStatus(message) == message.type = "status"

\* the status messages of the sequence `sent`, in their order
StatusMessages(sent) == SelectSeq(sent, IsStatus)

\* C23: the status messages transmitted on the own-room socket are, in every
\* state, the status messages transmitted on the dashboard socket, in the
\* same order.
C23_SameStatusOnBothChannels ==
    StatusMessages(sentOwn) = StatusMessages(sentDash)

(***************************************************************************)
(* Properties of the form and of the debounced summary.                    *)
(***************************************************************************)
\* the summaries among the messages transmitted on the dashboard socket
SummariesSent ==
    {sentDash[i] : i \in {j \in 1..Len(sentDash) : sentDash[j].type = "summary"}}

\* when the debounce timer fires, an open dashboard socket transmits the
\* message of the last call, DASHBOARD_SUMMARY_DEBOUNCE after that call, and
\* a socket that is not open transmits nothing
DebounceTransmits ==
    lastStep'.kind = "debounce"
    => /\ now = lastDebounced.timestamp + DASHBOARD_SUMMARY_DEBOUNCE
       /\ sentDash' = IF dashboardWS = "open"
                      THEN Append(sentDash, lastDebounced)
                      ELSE sentDash

\* at most one debounce timer is pending: the one of the last call, due
\* DASHBOARD_SUMMARY_DEBOUNCE after it; on a mounted page it is pending until
\* then and has fired afterwards
OneDebounceTimer ==
    /\ \A x \in dashTimeouts :
          /\ x.id = debounceTimer
          /\ x.msg = lastDebounced
          /\ x.due = lastDebounced.timestamp + DASHBOARD_SUMMARY_DEBOUNCE
          /\ now <= x.due
    /\ ( pageMounted /\ lastDebounced # NoMessage /\ dashTimeouts = {} )
          => now >= lastDebounced.timestamp + DASHBOARD_SUMMARY_DEBOUNCE

\* of the calls of a burst at most one message is transmitted: two
\* transmitted summaries stem from calls DASHBOARD_SUMMARY_DEBOUNCE or more
\* apart, and no summary is transmitted twice
OnePerBurst ==
    /\ \A m1, m2 \in SummariesSent :
          m1 # m2 => ( m1.timestamp >= m2.timestamp + DASHBOARD_SUMMARY_DEBOUNCE
                       \/ m2.timestamp >= m1.timestamp + DASHBOARD_SUMMARY_DEBOUNCE )
    /\ \A i, j \in 1..Len(sentDash) :
          ( i # j /\ sentDash[i].type = "summary" ) => sentDash[i] # sentDash[j]

\* C24: calls of sendDebounced that follow each other by less than
\* DASHBOARD_SUMMARY_DEBOUNCE lead to one transmission on an open dashboard
\* socket: of the message of the last call, DASHBOARD_SUMMARY_DEBOUNCE after
\* that call; no earlier message of the burst is transmitted.
C24_DebounceSendsLast ==
    /\ [][DebounceTransmits]_vars
    /\ [](OneDebounceTimer /\ OnePerBurst)

\* two changes of the form DebounceTickMs apart, both snapshots transmitted on
\* the own-room socket, and one summary on the dashboard socket: the one of
\* the second change
C24_Witness ==
    /\ nForms = 2
    /\ \E i, j \in 1..Len(sentOwn) :
          /\ sentOwn[i].type = "formSnapshot"
          /\ sentOwn[j].type = "formSnapshot"
          /\ sentOwn[j].timestamp = sentOwn[i].timestamp + DebounceTickMs
          /\ lastDebounced.timestamp = sentOwn[j].timestamp
          /\ sentOwn[i].payload # sentOwn[j].payload
    /\ SummariesSent = {lastDebounced}

\* a change of the form transmits, in the same step, a formSnapshot with the
\* new values of the form on the own-room socket
SnapshotAtOnce ==
    lastStep'.kind = "formChange"
    => sentOwn' = Append(sentOwn, Msg("formSnapshot", patientId, now, formValues', ""))

\* C25: every change of the form while the patient id is set sends a
\* formSnapshot with the full form on the own-room socket at once, whatever
\* the form holds.
C25_SnapshotOnEveryChange ==
    [][( patientId # "" /\ patientWS = "open" ) => SnapshotAtOnce]_vars

\* in the later page every change of the form on an open own-room socket
\* transmits the snapshot at once
SnapshotWithoutThreshold ==
    [][( patientId # "" /\ patientWS = "open" /\ variant = "removed" )
          => SnapshotAtOnce]_vars

\* after the unmount of the dashboard no removal timer is pending
DashboardTimersCleared == ~mounted => timeouts = {}

\* after the unmount of the patient page no timer of the page and no debounce
\* timer is pending
PageTimersCleared ==
    ( ~pageMounted /\ patientId # "" ) => ( pageTimeouts = {} /\ dashTimeouts = {} )

\* C26: after the unmount of the patient page or of the staff dashboard no
\* timer it armed is pending: the settle, online, idle, debounce and removal
\* timers are all cancelled, so no timer callback runs afterwards.
C26_NoTimerAfterTeardown ==
    /\ DashboardTimersCleared
    /\ PageTimersCleared

\* a call of sendStatusUpdate, which hands one message to the send of each
\* socket: a socket that is not open transmits nothing and keeps its ready
\* state, no error callback runs and no exception is raised
SendWhenNotOpen ==
    Len(emitted') = Len(emitted) + 1
    => /\ patientWS # "open" => ( sentOwn' = sentOwn /\ patientWS' = patientWS )
       /\ dashboardWS # "open" => ( sentDash' = sentDash /\ dashboardWS' = dashboardWS )
       /\ patientWS = "open" => Len(sentOwn') = Len(sentOwn) + 1
       /\ dashboardWS = "open" => Len(sentDash') = Len(sentDash) + 1
       /\ lastError' = lastError
       /\ uncaught' = uncaught

\* nothing is kept for later: when a socket opens, it transmits nothing but
\* the "online" of handleOpen
NothingQueued ==
    lastStep'.kind = "open"
    => /\ sentOwn' = sentOwn
       /\ \A i \in 1..Len(sentDash') :
             i > Len(sentDash) => ( i = Len(sentDash) + 1 /\ sentDash'[i].timestamp = now )
       /\ Len(sentDash') <= Len(sentDash) + 1

\* C27: send on a socket that is not open (connecting, closing or closed)
\* transmits nothing, raises no exception, calls no error callback, keeps
\* nothing for later and leaves the ready state of the socket as it was.
C27_SendWhenNotOpen == [][SendWhenNotOpen /\ NothingQueued]_vars

\* statuses were handed to send while the sockets were connecting and, after
\* the unmount, while they were closing; the own-room socket transmitted none
C27_Witness ==
    /\ ~pageMounted
    /\ patientWS = "closing"
    /\ Len(emitted) >= 2
    /\ emitted[Len(emitted)].at > StartTime
    /\ sentOwn = << >>
    /\ lastStep.kind = "online"

\* an error event is handed to onError only before the cleanup called close
\* and while the socket is neither closing nor closed
ErrorForwarding ==
    ( lastStep'.kind = "error" /\ lastError'.forwarded )
    => ( pageMounted /\ lastError'.seen \notin {"closing", "closed"} )

\* C28: once the cleanup of useWebSocket has called close, an error event of
\* the socket is never handed to onError; an error event is handed to onError
\* only while the socket is neither closing nor closed.
C28_NoErrorAfterClose == [][ErrorForwarding]_vars

\* the hook of part_004 forwards error events as C28 says
ErrorForwardingLater == [][variant = "removed" => ErrorForwarding]_vars

(***************************************************************************)
(* Properties of the live-detail connections.                              *)
(***************************************************************************)
\* the sockets made for `id` that are not closed and on which close has not
\* been called
LiveConnections(id) ==
    {k \in DOMAIN liveSockets : /\ liveSockets[k].id = id
                                /\ liveSockets[k].readyState # "closed"
                                /\ ~liveSockets[k].closeCalled}

\* C29: for every patient id at most one live-detail connection is in use at
\* any time (not closed, close not called), whatever the interleaving of
\* connectToPatient, disconnectFromPatient, disconnectAll and close events.
C29_OneConnectionPerId ==
    \A id \in ClientIds : Cardinality(LiveConnections(id)) <= 1

\* C30: after disconnectAll the ref is empty and close has been called on
\* every live-detail socket that is not closed, whatever came before.
C30_DisconnectAllClosesAll ==
    lastStep.kind \in {"disconnectAll", "unmount"}
    => /\ socketsRef = EmptyMap
       /\ \A k \in DOMAIN liveSockets :
             liveSockets[k].closeCalled \/ liveSockets[k].readyState = "closed"

\* disconnectFromPatient for an id without an entry in the ref changes nothing
DisconnectUnknownIsNoOp ==
    [][( lastStep'.kind = "disconnectFromPatient"
         /\ lastStep'.clientId \notin DOMAIN socketsRef )
       => ( socketsRef' = socketsRef /\ liveSockets' = liveSockets )]_vars

\* without disconnectFromPatient and disconnectAll before the unmount, the
\* ref names every connection in use
TrackedUnlessDisconnected ==
    ( \A k \in DOMAIN liveSockets : ~liveSockets[k].closeCalled )
    => \A k \in DOMAIN liveSockets :
          liveSockets[k].readyState # "closed"
          => ( liveSockets[k].id \in DOMAIN socketsRef
               /\ socketsRef[liveSockets[k].id] = k )

\* the pending timers of one kind
PendingOfKind(kind) == {x \in pageTimeouts : x.kind = kind}

\* C35: in every reachable state of the patient page at most one online timer
\* and at most one idle timer are pending, for every interleaving of mount,
\* patient-id initialisation, keystroke, focus and timer expiry.
C35_OneTimerPerKind ==
    /\ Cardinality(PendingOfKind("online")) <= 1
    /\ Cardinality(PendingOfKind("idle")) <= 1

\* C36: from a keystroke until 2 s after the last keystroke the last emitted
\* status is "updating", also when the typing starts within the settle delay
\* after mount.
C36_UpdatingWhileTyping ==
    ( lastInput.keyAt # NoInput.keyAt /\ now < lastInput.keyAt + ONLINE_TIMEOUT )
    => ( emitted # << >> /\ emitted[Len(emitted)].status = "updating" )

\* C37: for every event timestamp, including one ahead of the local clock, the
\* delay that scheduleRemoval arms lies between 0 and 10000 ms: every pending
\* removal timer is due no later than 10 s after the event was processed.
C37_RemovalDelayBounded ==
    \A x \in timeouts : now <= x.due /\ x.due <= now + REMOVAL_DELAY

\* the values of PatientStatus
PatientStatuses == {"online", "updating", "idle", "disconnected"}

\* C38: after any sequence of events every entry of the reconciled map has a
\* status in {online, updating, idle, disconnected} and a summary record
\* (possibly empty), including entries created by an initialState payload and
\* by a patientDisconnected event for a clientId that was not in the map.
C38_EntriesWellFormed ==
    \A c \in DOMAIN patients :
       /\ patients[c].status \in PatientStatuses
       /\ patients[c].summary.kind # "undefined"

\* C31: on a live-detail connection for participant id, onUpdate is invoked
\* exactly once, with that id, for each received message of type formSnapshot,
\* formUpdate or submit, and never for a message of any other type.
C31_OnUpdateOncePerLiveMessage ==
    [][ /\ lastStep'.kind = "liveUpdate"
           => /\ nUpdates' = nUpdates + 1
              /\ lastStep'.clientId \in DOMAIN patients'
              /\ patients'[lastStep'.clientId].isLiveConnected = "true"
        /\ lastStep'.kind # "liveUpdate"
           => nUpdates' = nUpdates
        /\ lastStep'.kind \in {"liveOther", "liveMalformed"}
           => patients' = patients ]_vars

C31_Witness ==
    /\ lastStep.kind = "liveOther"
    /\ nUpdates = 1

\* C34: whenever the dashboard connection of the page is open, the page's
\* currentStatus equals the state of the last status message transmitted on
\* that connection; a status send that was dropped does not leave the local
\* status ahead of what observers received.
C34_LocalStatusIsLastTransmitted ==
    dashboardWS = "open"
    => LET s == StatusMessages(sentDash)
       IN  s # << >> /\ s[Len(s)].state = currentStatus

\* C32: the text produced by createWSMessage(type, clientId, payload, state)
\* decodes to an envelope with the given type and clientId, timestamp equal to
\* the clock value at the call, a payload field if and only if payload was
\* given (equal to it), and a state field if and only if state was given
\* (equal to it).
C32_EncodeDecodeRoundTrip ==
    decoded # NotDecoded
    => /\ ~decoded.threw
       /\ decoded.value.t = "object"
       /\ LET envelope == decoded.value
          IN  /\ GetProp(envelope, "type") = Str(callArgs.type)
              /\ GetProp(envelope, "clientId") = Str(callArgs.clientId)
              /\ GetProp(envelope, "timestamp") = Num(calledAt)
              /\ HasProp(envelope, "payload") <=> callArgs.payload # Undefined
              /\ GetProp(envelope, "payload") = callArgs.payload
              /\ HasProp(envelope, "state") <=> callArgs.state # Undefined
              /\ GetProp(envelope, "state") = callArgs.state

C32_Witness ==
    /\ decoded # NotDecoded
    /\ calledAt > StartTime
    /\ now > calledAt
    /\ callArgs.payload = Undefined
    /\ callArgs.state = Str("")

\* a summary message with submitted = true
IsSubmittedSummary(message) ==
    message.type = "summary" /\ message.payload.submitted

\* C33: once onSubmit has sent the summary with submitted = true on the
\* dashboard connection, no summary without submitted = true is transmitted
\* on that connection afterwards.
C33_NoSummaryAfterSubmit ==
    \A i, j \in 1..Len(sentDash) :
       ( i < j /\ IsSubmittedSummary(sentDash[i]) /\ sentDash[j].type = "summary" )
       => IsSubmittedSummary(sentDash[j])

\* C39: in the staff live view of one patient the displayed currentStatus is
\* always one of online, updating, idle, whatever status messages arrive on
\* the patient's room, so the status style lookup always finds an entry.
C39_ViewStatusHasStyle ==
    /\ viewStatus \in ActiveStatuses
    /\ viewPhase # "crashed"

\* the sockets of the hook that are connecting or open and on which close has
\* not been called
HookConnections ==
    {k \in DOMAIN hookSockets :
        /\ hookSockets[k].readyState \in {"connecting", "open"}
        /\ ~hookSockets[k].closeCalled}

\* C40: useWebSocket never opens a connection while clientId is empty, and at
\* any time at most one connection opened by one hook instance is connecting
\* or open without close having been called on it: a change of room, clientId
\* or a callback closes the previous connection before the next one is opened.
C40_OneConnectionPerHook ==
    /\ \A k \in DOMAIN hookSockets : hookSockets[k].clientId # ""
    /\ ~hookMounted \/ hookDeps.clientId = "" => HookConnections = {}
    /\ Cardinality(HookConnections) <= 1
    /\ HookConnections \subseteq {hookWs}

\* the second socket of the hook is open while close has been called on the
\* first one, which was open
C40_Witness ==
    /\ Len(hookSockets) = 2
    /\ hookSockets[1].closeCalled
    /\ hookSockets[2].readyState = "open"
    /\ hookSockets[2].room # hookSockets[1].room
    /\ HookConnections = {2}
====
